---- MODULE Spec2Model ----
(***************************************************************************)
(* A model of the iDRAC inventory scanner: the scan engine (Scanner.New,   *)
(* Scanner.ScanAll, Scanner.worker), the per-host scan (Scanner.scanServer *)
(* and its collect* steps), the batch statistics and the aggregator        *)
(* (GroupByConfiguration).                                                 *)
(*                                                                         *)
(* Time is not modelled: a Redfish GET either succeeds or fails, and a     *)
(* failure stands for an HTTP error status, a transport error or the       *)
(* expiry of the per-host deadline alike.  Durations and timestamps are    *)
(* left out of the records.                                                *)
(***************************************************************************)
EXTENDS Integers, Sequences, FiniteSets, TLC

\* ------------------------------------------------------------------ bounds
MaxHosts == 2          \* longest cfg.Servers list of the engine runs
MaxWorkers == 2        \* largest cfg.Concurrency of the engine runs
MaxCfgConcurrency == 120  \* largest cfg.Concurrency handed to New
NegCfgConcurrency == 3    \* cfg.Concurrency handed to New goes down to -NegCfgConcurrency
MaxOEM == 3            \* largest Dell OEM MaxDIMMSlots value
MaxMembers == 2        \* longest Redfish memory collection
MaxRecords == 4        \* longest record list handed to GroupByConfiguration

\* ------------------------------------------------------- program constants
DefaultNewConcurrency == 5     \* scanner.go: concurrency = 5
DefaultMaxConcurrency == 50    \* pkg/defaults: DefaultMaxConcurrency

\* ------------------------------------------------------------------ values
Nil == "nil"
CtxErr == "context.Canceled"          \* ctx.Err() of the caller's context
CollectionErrorSystem == "CollectionError(system)"

StateEnabled == "Enabled"
StateAbsent == "Absent"
StateDisabled == "Disabled"
MemoryStates == {StateEnabled, StateAbsent, StateDisabled}

\* The Redfish steps of one host scan, in the order scanServer runs them.
Steps == <<"system", "processors", "memory", "storage", "power">>
StepSet == {Steps[i] : i \in 1..Len(Steps)}

VARIABLES
    cfgConcurrency, \* cfg.Concurrency as handed to New
    concurrency,    \* Scanner.concurrency
    servers,        \* cfg.Servers: the hosts, in configuration order
    bmc,            \* what the BMC of each configured server answers
    ctxDone,        \* the caller's context has been cancelled
    cancelledAt,    \* history: where each server's scan stood at cancellation
    jobs,           \* the jobs channel's buffer
    jobsClosed,
    results,        \* the results channel's buffer
    resultsClosed,
    mainPc,         \* ScanAll's position
    mainIdx,        \* index of the next server ScanAll sends
    wpc,            \* each worker's position
    wjob,           \* the server a worker holds
    winfo,          \* the record a worker is building
    closerPc,       \* the goroutine that closes results
    serverInfos,    \* the records ScanAll has collected
    stats,          \* the CollectionStats ScanAll returns
    aggServers,     \* the record list handed to GroupByConfiguration
    aggInv,         \* what GroupByConfiguration returned
    sumDrives,      \* a record's drive list
    sumReordered,   \* the same drives in another order
    summary,        \* NormalizeStorageSummary of sumDrives
    summaryReordered, \* NormalizeStorageSummary of sumReordered
    syncServers,    \* the records handed to SyncAll
    syncIdx,        \* index of the record SyncAll is at
    syncPc,         \* SyncAll's position within the record's sync
    syncDevice,     \* the device findDevice returned
    syncResults,    \* SyncAll's results
    requests,       \* every request sent to the asset system, with its answer
    fnCall          \* a call of a function that keeps no state: fn, arg, ret

vars == <<cfgConcurrency, concurrency, servers, bmc, ctxDone, cancelledAt, jobs,
          jobsClosed, results, resultsClosed, mainPc, mainIdx, wpc, wjob, winfo,
          closerPc, serverInfos, stats, aggServers, aggInv,
          sumDrives, sumReordered, summary, summaryReordered,
          syncServers, syncIdx, syncPc, syncDevice, syncResults, requests,
          fnCall>>

\* The aggregator's state, which the scan engine leaves alone
aggVars == <<aggServers, aggInv>>

\* The variables of the storage summary
summaryVars == <<sumDrives, sumReordered, summary, summaryReordered>>

\* The variables of the components beside the scan engine and the aggregator
\* The variables of the asset-system client
syncVars == <<syncServers, syncIdx, syncPc, syncDevice, syncResults, requests>>

\* The variables of the IP-range expansion
rangeVars == <<fnCall>>

otherVars == <<summaryVars, syncVars, rangeVars>>

\* No summary has been asked for
NoSummary == <<"none">>

SummaryIdle ==
    /\ sumDrives = <<>>
    /\ sumReordered = <<>>
    /\ summary = NoSummary
    /\ summaryReordered = NoSummary

\* The components beside the scan engine and the aggregator are at rest
NoDevice == [ID |-> 0]

SyncIdle ==
    /\ syncServers = <<>>
    /\ syncIdx = 1
    /\ syncPc = "idle"
    /\ syncDevice = NoDevice
    /\ syncResults = <<>>
    /\ requests = <<>>

\* No such call has been made
RangeIdle == fnCall = [fn |-> "none"]

\* The call has not returned
NoExpansion == [status |-> "none"]

OtherIdle == SummaryIdle /\ SyncIdle /\ RangeIdle

\* ---------------------------------------------------------------- helpers
Range(s) == {s[i] : i \in 1..Len(s)}

RECURSIVE CountIf(_, _)
\* Number of elements of sequence s with s[i].State = st
CountIf(s, st) ==
    IF s = <<>> THEN 0
    ELSE (IF Head(s).State = st THEN 1 ELSE 0) + CountIf(Tail(s), st)

\* ------------------------------------------------------------ Scanner.New
\* New: concurrency := cfg.Concurrency, 5 when that is <= 0
NewConcurrency(c) == IF c <= 0 THEN DefaultNewConcurrency ELSE c

\* --------------------------------------------------- what a BMC may answer
\* One memory-collection member: the slot's Status.State and whether the
\* GET of the member resource succeeds.
MemberSet == [State : MemoryStates, ok : BOOLEAN]

RECURSIVE SeqsUpTo(_, _)
\* All sequences over S of length at most n
SeqsUpTo(S, n) ==
    IF n = 0 THEN {<<>>}
    ELSE LET shorter == SeqsUpTo(S, n - 1)
         IN shorter \cup {Append(q, x) : q \in {r \in shorter : Len(r) = n - 1}, x \in S}

\* A BMC's answers to one host scan: the steps whose first GET fails, the
\* system resource's model, processor-summary count and Dell OEM MaxDIMMSlots
\* (0: no OEM block), the installed CPUs, the memory members, the drives and
\* the first power-control entry's PowerConsumedWatts.
Profile(fails, oem, members) ==
    [fails |-> fails, model |-> "PowerEdge R750", summaryCPUs |-> 2, cpus |-> 2,
     oem |-> oem, members |-> members, drives |-> 1, watts |-> 420]

TwoMembers == <<[State |-> StateEnabled, ok |-> TRUE], [State |-> StateAbsent, ok |-> TRUE]>>

\* The answers the engine runs draw from
EngineProfiles ==
    {Profile({}, 0, TwoMembers),
     Profile({"system"}, 0, TwoMembers)}

\* The answers the single-host runs draw from
HostProfiles ==
    {Profile(f, o, m) : f \in SUBSET StepSet, o \in 0..MaxOEM,
                        m \in SeqsUpTo(MemberSet, MaxMembers)}

\* ------------------------------------------------------------- the records
\* models.ServerInfo, zero-valued except for the identification
NewInfo(host) ==
    [Host |-> host, Error |-> Nil, Model |-> "", CPUCount |-> 0,
     Memory |-> <<>>, MemorySlotsTotal |-> 0, MemorySlotsUsed |-> 0,
     MemorySlotsFree |-> 0, DriveCount |-> 0, PowerConsumedWatts |-> 0]

\* The record a worker emits for a job it finds cancelled
CancelledInfo(host) == [NewInfo(host) EXCEPT !.Error = CtxErr]

\* ------------------------------------------------------------ the collect* steps
\* collectSystemInfo on a successful GET
CollectSystemInfo(info, p) ==
    [info EXCEPT !.Model = p.model,
                 !.CPUCount = p.summaryCPUs,
                 !.MemorySlotsTotal = IF p.oem > 0 THEN p.oem ELSE @]

\* collectProcessors on a successful collection GET
CollectProcessors(info, p) ==
    [info EXCEPT !.CPUCount = IF p.cpus > 0 THEN p.cpus ELSE @]

\* The modules collectMemory appends: the members whose GET succeeded
MemoryModules(members) ==
    LET fetched == SelectSeq(members, LAMBDA m : m.ok)
    IN [i \in 1..Len(fetched) |-> [State |-> fetched[i].State]]

MemorySlotsFreeCounted(total, modules, slotsUsed) == CountIf(modules, StateAbsent)
\* collectMemory: info.MemorySlotsFree = info.MemorySlotsTotal - slotsUsed
MemorySlotsFreeOf(total, modules, slotsUsed) == total - slotsUsed

MemorySlotsTotalCountsMembers(current, modules, members) ==
    IF current = 0 THEN Len(members) ELSE current
\* collectMemory: the total is the number of fetched modules unless OEM data
\* set it (members: the collection's member links)
MemorySlotsTotalOf(current, modules, members) ==
    IF current = 0 THEN Len(modules) ELSE current

\* collectMemory on a successful collection GET
CollectMemory(info, p) ==
    LET modules == MemoryModules(p.members)
        slotsUsed == CountIf(modules, StateEnabled)
        total == MemorySlotsTotalOf(info.MemorySlotsTotal, modules, p.members)
    IN [info EXCEPT !.Memory = modules,
                    !.MemorySlotsUsed = slotsUsed,
                    !.MemorySlotsTotal = total,
                    !.MemorySlotsFree = MemorySlotsFreeOf(total, modules, slotsUsed)]

\* collectStorage on a successful collection GET
CollectStorage(info, p) == [info EXCEPT !.DriveCount = p.drives]

\* collectPowerInfo on a successful GET
CollectPowerInfo(info, p) ==
    [info EXCEPT !.PowerConsumedWatts = IF p.watts > 0 THEN p.watts ELSE @]

\* --------------------------------------------------------- calculateStats
SuccessfulCount(infos) == Cardinality({i \in 1..Len(infos) : infos[i].Error = Nil})
FailedCountOf(infos) == Cardinality({i \in 1..Len(infos) : infos[i].Error # Nil})

CalculateStatsSkipsCancelled(infos) ==
    [TotalServers |-> Len(infos),
     SuccessfulCount |-> SuccessfulCount(infos),
     FailedCount |-> Cardinality({i \in 1..Len(infos) : infos[i].Error = CollectionErrorSystem})]

\* calculateStats: the counts (the duration statistics are left out)
CalculateStats(infos) ==
    [TotalServers |-> Len(infos),
     SuccessfulCount |-> IF Len(infos) = 0 THEN 0 ELSE SuccessfulCount(infos),
     FailedCount |-> IF Len(infos) = 0 THEN 0 ELSE FailedCountOf(infos)]

NoStats == [TotalServers |-> 0, SuccessfulCount |-> 0, FailedCount |-> 0]

\* No inventory has been asked for
NoInventory == [status |-> "none"]

\* ------------------------------------------------------------------- Init
\* The worker goroutines that exist
Workers == DOMAIN wpc
ServerIds == 1..Len(servers)

InitWith(cfgValues, lengths, profiles) ==
    /\ cfgConcurrency \in cfgValues
    /\ concurrency = NewConcurrency(cfgConcurrency)
    /\ \E n \in lengths :
         /\ servers = [i \in 1..n |-> i]
         /\ bmc \in [1..n -> profiles]
         /\ cancelledAt = [i \in 1..n |-> "not cancelled"]
    /\ ctxDone = FALSE
    /\ jobs = <<>>
    /\ jobsClosed = FALSE
    /\ results = <<>>
    /\ resultsClosed = FALSE
    /\ mainPc = "start"
    /\ mainIdx = 1
    /\ wpc = <<>>
    /\ wjob = <<>>
    /\ winfo = <<>>
    /\ closerPc = "unborn"
    /\ serverInfos = <<>>
    /\ stats = NoStats
    /\ aggServers = <<>>
    /\ aggInv = NoInventory
    /\ OtherIdle

\* The engine runs: a scanner built by New, a fleet of 0..MaxHosts hosts
Init == InitWith(1..MaxWorkers, 0..MaxHosts, EngineProfiles)

\* --------------------------------------------------------------- ScanAll
StartWorkersOneTooMany ==
    /\ mainPc = "start"
    /\ wpc' = [w \in 1..(concurrency + 1) |-> "range"]
    /\ wjob' = [w \in 1..(concurrency + 1) |-> 0]
    /\ winfo' = [w \in 1..(concurrency + 1) |-> NewInfo(0)]
    /\ mainPc' = "send"
    /\ UNCHANGED <<aggVars, otherVars, cfgConcurrency, concurrency, servers, bmc, ctxDone, cancelledAt,
                   jobs, jobsClosed, results, resultsClosed, mainIdx,
                   closerPc, serverInfos, stats>>

\* make(chan ...) twice, then for i := 0; i < s.concurrency; i++ { go s.worker(...) }
StartWorkers ==
    /\ mainPc = "start"
    /\ wpc' = [w \in 1..concurrency |-> "range"]
    /\ wjob' = [w \in 1..concurrency |-> 0]
    /\ winfo' = [w \in 1..concurrency |-> NewInfo(0)]
    /\ mainPc' = "send"
    /\ UNCHANGED <<aggVars, otherVars, cfgConcurrency, concurrency, servers, bmc, ctxDone, cancelledAt,
                   jobs, jobsClosed, results, resultsClosed, mainIdx,
                   closerPc, serverInfos, stats>>

\* jobs <- server; the buffer holds len(cfg.Servers) jobs
SendJob ==
    /\ mainPc = "send"
    /\ mainIdx <= Len(servers)
    /\ Len(jobs) < Len(servers)
    /\ jobs' = Append(jobs, mainIdx)
    /\ mainIdx' = mainIdx + 1
    /\ UNCHANGED <<aggVars, otherVars, cfgConcurrency, concurrency, servers, bmc, ctxDone, cancelledAt,
                   jobsClosed, results, resultsClosed, mainPc, wpc, wjob, winfo,
                   closerPc, serverInfos, stats>>

CloseJobsForgetsClose ==
    /\ mainPc = "send"
    /\ mainIdx > Len(servers)
    /\ closerPc' = "wait"
    /\ mainPc' = "collect"
    /\ UNCHANGED <<aggVars, otherVars, cfgConcurrency, concurrency, servers, bmc, ctxDone, cancelledAt,
                   jobs, jobsClosed, results, resultsClosed, mainIdx, wpc, wjob, winfo,
                   serverInfos, stats>>

\* close(jobs), then go func() { wg.Wait(); close(results) }()
CloseJobs ==
    /\ mainPc = "send"
    /\ mainIdx > Len(servers)
    /\ jobsClosed' = TRUE
    /\ closerPc' = "wait"
    /\ mainPc' = "collect"
    /\ UNCHANGED <<aggVars, otherVars, cfgConcurrency, concurrency, servers, bmc, ctxDone, cancelledAt,
                   jobs, results, resultsClosed, mainIdx, wpc, wjob, winfo,
                   serverInfos, stats>>

CloseResultsWithoutWait ==
    /\ closerPc = "wait"
    /\ resultsClosed' = TRUE
    /\ closerPc' = "done"
    /\ UNCHANGED <<aggVars, otherVars, cfgConcurrency, concurrency, servers, bmc, ctxDone, cancelledAt,
                   jobs, jobsClosed, results, mainPc, mainIdx, wpc, wjob, winfo,
                   serverInfos, stats>>

\* wg.Wait() returns once every worker has run its deferred wg.Done()
CloseResults ==
    /\ closerPc = "wait"
    /\ \A w \in Workers : wpc[w] = "done"
    /\ resultsClosed' = TRUE
    /\ closerPc' = "done"
    /\ UNCHANGED <<aggVars, otherVars, cfgConcurrency, concurrency, servers, bmc, ctxDone, cancelledAt,
                   jobs, jobsClosed, results, mainPc, mainIdx, wpc, wjob, winfo,
                   serverInfos, stats>>

\* for result := range results: one received record
Collect ==
    /\ mainPc = "collect"
    /\ results # <<>>
    /\ serverInfos' = Append(serverInfos, Head(results))
    /\ results' = Tail(results)
    /\ UNCHANGED <<aggVars, otherVars, cfgConcurrency, concurrency, servers, bmc, ctxDone, cancelledAt,
                   jobs, jobsClosed, resultsClosed, mainPc, mainIdx, wpc, wjob,
                   winfo, closerPc, stats>>

\* the range loop ends on the closed, drained channel; calculateStats; return
Return ==
    /\ mainPc = "collect"
    /\ results = <<>>
    /\ resultsClosed
    /\ stats' = CalculateStats(serverInfos)
    /\ mainPc' = "returned"
    /\ UNCHANGED <<aggVars, otherVars, cfgConcurrency, concurrency, servers, bmc, ctxDone, cancelledAt,
                   jobs, jobsClosed, results, resultsClosed, mainIdx, wpc, wjob,
                   winfo, closerPc, serverInfos>>

\* ----------------------------------------------------------------- worker
\* for server := range jobs: a job is received
TakeJob(w) ==
    /\ wpc[w] = "range"
    /\ jobs # <<>>
    /\ wjob' = [wjob EXCEPT ![w] = Head(jobs)]
    /\ jobs' = Tail(jobs)
    /\ wpc' = [wpc EXCEPT ![w] = "select"]
    /\ UNCHANGED <<aggVars, otherVars, cfgConcurrency, concurrency, servers, bmc, ctxDone, cancelledAt,
                   jobsClosed, results, resultsClosed, mainPc, mainIdx, winfo,
                   closerPc, serverInfos, stats>>

\* for server := range jobs: the channel is closed and drained; the worker
\* returns and its deferred wg.Done() runs
WorkerExit(w) ==
    /\ wpc[w] = "range"
    /\ jobs = <<>>
    /\ jobsClosed
    /\ wpc' = [wpc EXCEPT ![w] = "done"]
    /\ UNCHANGED <<aggVars, otherVars, cfgConcurrency, concurrency, servers, bmc, ctxDone, cancelledAt,
                   jobs, jobsClosed, results, resultsClosed, mainPc, mainIdx, wjob,
                   winfo, closerPc, serverInfos, stats>>

WorkerCancelledDropsJob(w) ==
    /\ wpc[w] = "select"
    /\ ctxDone
    /\ wjob' = [wjob EXCEPT ![w] = 0]
    /\ wpc' = [wpc EXCEPT ![w] = "range"]
    /\ UNCHANGED <<aggVars, otherVars, cfgConcurrency, concurrency, servers, bmc, ctxDone, cancelledAt,
                   jobs, jobsClosed, results, resultsClosed, mainPc, mainIdx, winfo,
                   closerPc, serverInfos, stats>>

\* select { case <-ctx.Done(): results <- cancelled record; continue }
WorkerCancelled(w) ==
    /\ wpc[w] = "select"
    /\ ctxDone
    /\ Len(results) < Len(servers)
    /\ ~resultsClosed
    /\ results' = Append(results, CancelledInfo(servers[wjob[w]]))
    /\ wjob' = [wjob EXCEPT ![w] = 0]
    /\ wpc' = [wpc EXCEPT ![w] = "range"]
    /\ UNCHANGED <<aggVars, otherVars, cfgConcurrency, concurrency, servers, bmc, ctxDone, cancelledAt,
                   jobs, jobsClosed, resultsClosed, mainPc, mainIdx, winfo,
                   closerPc, serverInfos, stats>>

BeginScanAtIgnoresCancel(w, first) ==
    /\ wpc[w] = "select"
    /\ winfo' = [winfo EXCEPT ![w] = NewInfo(servers[wjob[w]])]
    /\ wpc' = [wpc EXCEPT ![w] = first]
    /\ UNCHANGED <<aggVars, otherVars, cfgConcurrency, concurrency, servers, bmc, ctxDone, cancelledAt,
                   jobs, jobsClosed, results, resultsClosed, mainPc, mainIdx, wjob,
                   closerPc, serverInfos, stats>>

\* select { default: }, then scanServer is entered and builds its record.
\* `first` is "scanning" where the scan is followed as one call and "system"
\* where it is followed step by step.
BeginScanAt(w, first) ==
    /\ wpc[w] = "select"
    /\ ~ctxDone
    /\ winfo' = [winfo EXCEPT ![w] = NewInfo(servers[wjob[w]])]
    /\ wpc' = [wpc EXCEPT ![w] = first]
    /\ UNCHANGED <<aggVars, otherVars, cfgConcurrency, concurrency, servers, bmc, ctxDone, cancelledAt,
                   jobs, jobsClosed, results, resultsClosed, mainPc, mainIdx, wjob,
                   closerPc, serverInfos, stats>>

BeginScan(w) == BeginScanAt(w, "scanning")

BeginScanSteps(w) == BeginScanAt(w, "system")

StepIndex(step) == CHOOSE i \in 1..Len(Steps) : Steps[i] = step

\* redfishClient.get under scanCtx: the request fails when the BMC fails it
\* or when the context is done (http.Client.Do returns the context's error,
\* which get wraps into a RedfishError with status 0)
GetFails(p, step, done) == done \/ step \in p.fails

ErrorOnSystemAndProcessors(info, step) ==
    IF step \in {"system", "processors"} THEN [info EXCEPT !.Error = CollectionErrorSystem]
    ELSE info
\* scanServer: what a failed step leaves in the record (only the system
\* step sets info.Error)
OnStepError(info, step) ==
    IF step = "system" THEN [info EXCEPT !.Error = CollectionErrorSystem] ELSE info

\* scanServer: what a successful step writes into the record
OnStepOk(info, step, p) ==
    CASE step = "system" -> CollectSystemInfo(info, p)
      [] step = "processors" -> CollectProcessors(info, p)
      [] step = "memory" -> CollectMemory(info, p)
      [] step = "storage" -> CollectStorage(info, p)
      [] step = "power" -> CollectPowerInfo(info, p)

AfterStepGoesOn(step, failed) ==
    CASE step = "system" -> "processors"
      [] step = "processors" -> "memory"
      [] step = "memory" -> "storage"
      [] step = "storage" -> "power"
      [] step = "power" -> "result"

\* scanServer: where the scan goes after a step (a failed system fetch
\* returns at once)
AfterStep(step, failed) ==
    CASE step = "system" -> IF failed THEN "result" ELSE "processors"
      [] step = "processors" -> "memory"
      [] step = "memory" -> "storage"
      [] step = "storage" -> "power"
      [] step = "power" -> "result"

\* One step of scanServer: collectSystemInfo, collectProcessors,
\* collectMemory, collectStorage or collectPowerInfo
ScanStep(w) ==
    /\ wpc[w] \in StepSet
    /\ LET step == wpc[w]
           failed == GetFails(bmc[wjob[w]], step, ctxDone)
       IN /\ winfo' = [winfo EXCEPT ![w] =
                          IF failed THEN OnStepError(@, step)
                          ELSE OnStepOk(@, step, bmc[wjob[w]])]
          /\ wpc' = [wpc EXCEPT ![w] = AfterStep(step, failed)]
    /\ UNCHANGED <<aggVars, otherVars, cfgConcurrency, concurrency, servers, bmc, ctxDone, cancelledAt,
                   jobs, jobsClosed, results, resultsClosed, mainPc, mainIdx, wjob,
                   closerPc, serverInfos, stats>>

RECURSIVE ScanFrom(_, _, _, _)
\* scanServer from step i on, as one call: the steps from index `cut` on
\* find the context done (cut > Len(Steps): none does)
ScanFrom(info, p, i, cut) ==
    LET step == Steps[i]
        failed == GetFails(p, step, i >= cut)
        after == IF failed THEN OnStepError(info, step) ELSE OnStepOk(info, step, p)
    IN IF AfterStep(step, failed) = "result" THEN after
       ELSE ScanFrom(after, p, i + 1, cut)

\* The steps at which cancellation may have reached a scan followed as one
\* call, as indices (Len(Steps) + 1: after its last request).  A scan that
\* was not under way when the context was cancelled, or whose context never
\* was, is not reached at all.
CutsOf(i) ==
    IF cancelledAt[i] = "scanning" THEN 1..(Len(Steps) + 1) ELSE {Len(Steps) + 1}

StageOfCut(cut) == IF cut <= Len(Steps) THEN Steps[cut] ELSE "over"

FinishScanFailsWithOthers(w) ==
    /\ wpc[w] = "scanning"
    /\ Len(results) < Len(servers)
    /\ ~resultsClosed
    /\ \E cut \in CutsOf(wjob[w]) :
         /\ results' = Append(results,
                              IF \E i \in ServerIds : "system" \in bmc[i].fails
                              THEN OnStepError(winfo[w], "system")
                              ELSE ScanFrom(winfo[w], bmc[wjob[w]], 1, cut))
         /\ cancelledAt' = [cancelledAt EXCEPT ![wjob[w]] =
                               IF @ = "scanning" THEN StageOfCut(cut) ELSE @]
    /\ wjob' = [wjob EXCEPT ![w] = 0]
    /\ wpc' = [wpc EXCEPT ![w] = "range"]
    /\ UNCHANGED <<aggVars, otherVars, cfgConcurrency, concurrency, servers, bmc, ctxDone, jobs,
                   jobsClosed, resultsClosed, mainPc, mainIdx, winfo, closerPc,
                   serverInfos, stats>>

\* scanServer returns and the worker sends the record:
\* results <- scanResult{info, duration}
FinishScan(w) ==
    /\ wpc[w] = "scanning"
    /\ Len(results) < Len(servers)
    /\ ~resultsClosed
    /\ \E cut \in CutsOf(wjob[w]) :
         /\ results' = Append(results, ScanFrom(winfo[w], bmc[wjob[w]], 1, cut))
         /\ cancelledAt' = [cancelledAt EXCEPT ![wjob[w]] =
                               IF @ = "scanning" THEN StageOfCut(cut) ELSE @]
    /\ wjob' = [wjob EXCEPT ![w] = 0]
    /\ wpc' = [wpc EXCEPT ![w] = "range"]
    /\ UNCHANGED <<aggVars, otherVars, cfgConcurrency, concurrency, servers, bmc, ctxDone, jobs,
                   jobsClosed, resultsClosed, mainPc, mainIdx, winfo, closerPc,
                   serverInfos, stats>>

\* results <- scanResult{info, duration}
SendResult(w) ==
    /\ wpc[w] = "result"
    /\ Len(results) < Len(servers)
    /\ ~resultsClosed
    /\ results' = Append(results, winfo[w])
    /\ wjob' = [wjob EXCEPT ![w] = 0]
    /\ wpc' = [wpc EXCEPT ![w] = "range"]
    /\ UNCHANGED <<aggVars, otherVars, cfgConcurrency, concurrency, servers, bmc, ctxDone, cancelledAt,
                   jobs, jobsClosed, resultsClosed, mainPc, mainIdx, winfo,
                   closerPc, serverInfos, stats>>

\* ------------------------------------------------------------ the caller
\* Where server i's scan stands: not begun, at one of its steps, under way
\* (a scan followed as one call: FinishScan tells the step), or over
ScanStage(i) ==
    IF \E w \in Workers : wjob[w] = i /\ wpc[w] \in StepSet \cup {"scanning"}
    THEN wpc[CHOOSE w \in Workers : wjob[w] = i /\ wpc[w] \in StepSet \cup {"scanning"}]
    ELSE IF \/ i >= mainIdx
            \/ i \in Range(jobs)
            \/ \E w \in Workers : wjob[w] = i /\ wpc[w] = "select"
         THEN "not begun"
         ELSE "over"

\* The caller cancels the context (a signal, a deadline): at any moment
\* before ScanAll has returned
Cancel ==
    /\ ~ctxDone
    /\ mainPc # "returned"
    /\ ctxDone' = TRUE
    /\ cancelledAt' = [i \in ServerIds |-> ScanStage(i)]
    /\ UNCHANGED <<aggVars, otherVars, cfgConcurrency, concurrency, servers, bmc, jobs, jobsClosed,
                   results, resultsClosed, mainPc, mainIdx, wpc, wjob, winfo,
                   closerPc, serverInfos, stats>>

\* ------------------------------------------------------------------- Next
Next ==
    \/ StartWorkers
    \/ SendJob
    \/ CloseJobs
    \/ CloseResults
    \/ Collect
    \/ Return
    \/ Cancel
    \/ \E w \in Workers : TakeJob(w)
    \/ \E w \in Workers : WorkerExit(w)
    \/ \E w \in Workers : WorkerCancelled(w)
    \/ \E w \in Workers : BeginScan(w)
    \/ \E w \in Workers : FinishScan(w)

\* The engine: ScanAll over a fleet, each scanServer call followed as a whole
Spec == Init /\ [][Next]_vars

\* Scanner.New on any configuration object: New(cfg) sets the worker count
\* and ScanAll starts that many workers
NewInit ==
    /\ cfgConcurrency \in (0 - NegCfgConcurrency)..MaxCfgConcurrency
    /\ concurrency = 0
    /\ servers = <<>>
    /\ bmc = <<>>
    /\ cancelledAt = <<>>
    /\ ctxDone = FALSE
    /\ jobs = <<>>
    /\ jobsClosed = FALSE
    /\ results = <<>>
    /\ resultsClosed = FALSE
    /\ mainPc = "unbuilt"
    /\ mainIdx = 1
    /\ wpc = <<>>
    /\ wjob = <<>>
    /\ winfo = <<>>
    /\ closerPc = "unborn"
    /\ serverInfos = <<>>
    /\ stats = NoStats
    /\ aggServers = <<>>
    /\ aggInv = NoInventory
    /\ OtherIdle

\* New(cfg)
NewScanner ==
    /\ mainPc = "unbuilt"
    /\ concurrency' = NewConcurrency(cfgConcurrency)
    /\ mainPc' = "start"
    /\ UNCHANGED <<aggVars, otherVars, cfgConcurrency, servers, bmc, ctxDone, cancelledAt, jobs,
                   jobsClosed, results, resultsClosed, mainIdx, wpc, wjob, winfo,
                   closerPc, serverInfos, stats>>

NewNext ==
    \/ NewScanner
    \/ StartWorkers

NewSpec == NewInit /\ [][NewNext]_vars

\* A single host scanned by a single worker, scanServer followed step by step
HostInit == InitWith({1}, {1}, HostProfiles)

HostNext ==
    \/ StartWorkers
    \/ SendJob
    \/ CloseJobs
    \/ CloseResults
    \/ Collect
    \/ Return
    \/ Cancel
    \/ \E w \in Workers : TakeJob(w)
    \/ \E w \in Workers : WorkerExit(w)
    \/ \E w \in Workers : WorkerCancelled(w)
    \/ \E w \in Workers : BeginScanSteps(w)
    \/ \E w \in Workers : ScanStep(w)
    \/ \E w \in Workers : SendResult(w)

HostSpec == HostInit /\ [][HostNext]_vars

\* ------------------------------------------------------------- fairness
MainStep == StartWorkers \/ SendJob \/ CloseJobs \/ Collect \/ Return

WorkerStep(w) ==
    /\ w \in Workers
    /\ \/ TakeJob(w)
       \/ WorkerExit(w)
       \/ WorkerCancelled(w)
       \/ BeginScan(w)
       \/ FinishScan(w)

\* The Go scheduler runs every runnable goroutine, and every host scan
\* returns (each GET is bounded by the per-host deadline); the caller is
\* under no obligation to cancel
FairSpec ==
    /\ Spec
    /\ WF_vars(MainStep)
    /\ WF_vars(CloseResults)
    /\ \A w \in 1..MaxWorkers : WF_vars(WorkerStep(w))

\* ======================================================================
\* Properties
\* ======================================================================
Returned == mainPc = "returned"

\* The indices of the returned records that are server i's
RecordsOf(i) == {k \in 1..Len(serverInfos) : serverInfos[k].Host = servers[i]}

\* C1: when ScanAll returns, under every interleaving and every moment of
\* cancellation, it returns exactly one record per configured server: as
\* many records as servers, none missing, none twice.
C1_OneRecordPerHost ==
    Returned =>
        /\ Len(serverInfos) = Len(servers)
        /\ \A i \in ServerIds : Cardinality(RecordsOf(i)) = 1

\* C1 witness: a run cancelled midway has returned, with a record of a
\* cancelled job beside a record of a scanned host
C1_Witness ==
    /\ Returned
    /\ Len(servers) >= 2
    /\ \E k \in 1..Len(serverInfos) : serverInfos[k].Error = CtxErr
    /\ \E k \in 1..Len(serverInfos) : serverInfos[k].Error = Nil

\* C2: ScanAll eventually returns, for every fleet size; the empty fleet
\* returns an empty result with total 0.
C2_ScanAllReturns ==
    <>(/\ Returned
       /\ servers = <<>> => (serverInfos = <<>> /\ stats.TotalServers = 0))

\* C2 witness: ScanAll has returned from a cancelled run over several hosts
\* with several workers, every worker gone
C2_Witness ==
    /\ Returned
    /\ ctxDone
    /\ Len(servers) >= 2
    /\ Cardinality(Workers) >= 2
    /\ \A w \in Workers : wpc[w] = "done"

\* The workers inside scanServer
Scanning == {w \in Workers : wpc[w] \in StepSet \cup {"scanning"}}

\* C3: at every moment at most `concurrency` host scans are in progress,
\* and the scans in progress are of distinct hosts, one per scanning worker.
C3_BoundedConcurrency ==
    /\ Cardinality(Scanning) <= concurrency
    /\ \A v, w \in Scanning : v # w => wjob[v] # wjob[w]
    /\ \A w \in Scanning : wjob[w] \in ServerIds

\* C3 witness: as many scans in progress as the concurrency allows, more than one
C3_Witness ==
    /\ concurrency >= 2
    /\ Cardinality(Scanning) = concurrency

\* C4 (as claimed): the number of workers ScanAll starts is 5 when
\* cfg.Concurrency is not positive and never exceeds 50.
C4_WorkersClamped ==
    mainPc = "send" =>
        /\ cfgConcurrency <= 0 => Cardinality(Workers) = DefaultNewConcurrency
        /\ Cardinality(Workers) <= DefaultMaxConcurrency

\* The records ScanAll has collected
Collected == {serverInfos[k] : k \in 1..Len(serverInfos)}

\* C5 (as claimed): a host whose scan was at one of its steps when the
\* context was cancelled gets a record whose error is ctx.Err().
C5_CancelledScanHasCtxErr ==
    \A r \in Collected : cancelledAt[r.Host] \in StepSet => r.Error = CtxErr

\* C6: absent cancellation a record's error is set exactly when the system
\* fetch failed; the other steps' failures, in any combination, leave the
\* error unset, and the record is returned all the same.
C6_ErrorIffSystemFailed ==
    ~ctxDone =>
        /\ \A r \in Collected : (r.Error # Nil) <=> ("system" \in bmc[r.Host].fails)
        /\ Returned => Len(serverInfos) = Len(servers)

\* C6 witness: an uncancelled scan whose four later steps all failed has
\* returned a record without error
C6_Witness ==
    /\ ~ctxDone
    /\ Returned
    /\ \E r \in Collected :
         /\ bmc[r.Host].fails = {"processors", "memory", "storage", "power"}
         /\ r.Error = Nil
         /\ r.Model # ""

\* C7: the returned statistics satisfy total = successful + failed.
C7_StatsAddUp ==
    Returned =>
        /\ stats.TotalServers = stats.SuccessfulCount + stats.FailedCount
        /\ stats.TotalServers = Len(serverInfos)

\* C7 witness: a cancelled run has returned with a success beside a
\* cancelled job
C7_Witness ==
    /\ Returned
    /\ stats.SuccessfulCount >= 1
    /\ stats.FailedCount >= 1
    /\ \E r \in Collected : r.Error = CtxErr

\* A record's three slot counts are all populated (non-zero)
SlotsPopulated(r) ==
    r.MemorySlotsTotal # 0 /\ r.MemorySlotsUsed # 0 /\ r.MemorySlotsFree # 0

\* collectMemory got the collection for this record: the system and memory
\* GETs did not fail and cancellation did not come before them
MemoryCollected(r) ==
    /\ bmc[r.Host].fails \cap {"system", "memory"} = {}
    /\ cancelledAt[r.Host] \notin {"not begun", "system", "processors", "memory"}

\* C8: in every returned record used + free = total, whenever the three
\* counts are populated and whenever collectMemory wrote them.
C8_SlotsAddUp ==
    \A r \in Collected :
        (SlotsPopulated(r) \/ MemoryCollected(r)) =>
            r.MemorySlotsUsed + r.MemorySlotsFree = r.MemorySlotsTotal

\* C8 witness: a record whose total came from OEM data, with a populated
\* slot, an absent slot and a member whose fetch failed behind it
C8_Witness ==
    \E r \in Collected :
        /\ SlotsPopulated(r)
        /\ bmc[r.Host].oem > Len(bmc[r.Host].members)
        /\ Len(r.Memory) < Len(bmc[r.Host].members)
        /\ r.MemorySlotsUsed >= 1

\* C9 (as claimed): a record without error has exactly memory_slots_total
\* memory entries, or its total came from OEM data and is at least the
\* number of entries.
C9_TotalCoversMemory ==
    \A r \in Collected :
        r.Error = Nil =>
            \/ Len(r.Memory) = r.MemorySlotsTotal
            \/ bmc[r.Host].oem > 0 /\ r.MemorySlotsTotal >= Len(r.Memory)

\* C9 (amended): a record without error has exactly memory_slots_total
\* memory entries, or its total is the OEM slot count, whatever the number
\* of entries.
C9_TotalIsObservedOrOEM ==
    \A r \in Collected :
        r.Error = Nil =>
            \/ Len(r.Memory) = r.MemorySlotsTotal
            \/ bmc[r.Host].oem > 0 /\ r.MemorySlotsTotal = bmc[r.Host].oem

\* C9 witness: a record without error whose OEM total is smaller than the
\* number of memory entries collected
C9_Witness ==
    \E r \in Collected :
        /\ r.Error = Nil
        /\ bmc[r.Host].oem > 0
        /\ r.MemorySlotsTotal < Len(r.Memory)

\* ---------------------------------------------------------- aggregation
\* Strings that reach the grouping keys are sequences of characters, so that
\* a separator inside a field is the same character as the separator
\* fmt.Sprintf writes. NUL is the byte \x00; "x" stands for the sign U+00D7.
NUL == "NUL"
Digits == <<"0", "1", "2", "3", "4", "5", "6", "7", "8", "9">>

\* fmt's %d of a non-negative int
RECURSIVE Itoa(_)
Itoa(n) ==
    IF n < 10 THEN <<Digits[n + 1]>>
    ELSE Itoa(n \div 10) \o <<Digits[(n % 10) + 1]>>

\* strings.Join
RECURSIVE Join(_, _)
Join(parts, sep) ==
    IF parts = <<>> THEN <<>>
    ELSE IF Len(parts) = 1 THEN parts[1]
    ELSE parts[1] \o sep \o Join(Tail(parts), sep)

\* int(x + 0.5) of a non-negative float64 held in tenths
RoundTenths(x) == (x + 5) \div 10

\* The first index at which a sequence of booleans is TRUE, 0 if there is none
FirstIndex(flags) ==
    IF \E i \in DOMAIN flags : flags[i]
    THEN CHOOSE i \in DOMAIN flags : flags[i] /\ \A j \in 1..(i - 1) : ~flags[j]
    ELSE 0

\* HardwareFingerprint.Key
Key(f) ==
    Join(<<Itoa(f.CPUCount), f.CPUModel, Itoa(f.CPUCoresPerSocket),
           Itoa(f.CPUSpeedMHz), Itoa(f.RAMTotalGiB), Itoa(f.RAMModuleSizeGiB),
           f.RAMType, Itoa(f.RAMSpeedMHz), Itoa(f.RAMSlotsTotal),
           f.StorageSummary, Itoa(f.GPUCount), f.GPUModel,
           Itoa(f.GPUMemoryGiB)>>, <<"|">>)

\* Go compares strings byte by byte; the bytes of the media types, ascending
ByteOrder == <<"D", "H", "S">>
ByteRank(c) == CHOOSE i \in DOMAIN ByteOrder : ByteOrder[i] = c

RECURSIVE StringLess(_, _)
StringLess(a, b) ==
    IF b = <<>> THEN FALSE
    ELSE IF a = <<>> THEN TRUE
    ELSE IF a[1] # b[1] THEN ByteRank(a[1]) < ByteRank(b[1])
    ELSE StringLess(Tail(a), Tail(b))

SSD == <<"S", "S", "D">>
HDD == <<"H", "D", "D">>

\* driveKey of a drive
DriveKey(d) == [capacityGB |-> RoundTenths(d.CapacityGB), mediaType |-> d.MediaType]

\* The distinct drive keys in the order they are first met
RECURSIVE DriveKeys(_)
DriveKeys(drives) ==
    IF drives = <<>> THEN <<>>
    ELSE LET rest == DriveKeys(SubSeq(drives, 1, Len(drives) - 1))
             k == DriveKey(drives[Len(drives)])
         IN IF k \in Range(rest) THEN rest ELSE Append(rest, k)

DriveKeyLessIgnoresCapacity(ki, kj) ==
    IF ki.mediaType # kj.mediaType
    THEN IF ki.mediaType = SSD THEN TRUE
         ELSE IF kj.mediaType = SSD THEN FALSE
         ELSE StringLess(ki.mediaType, kj.mediaType)
    ELSE FALSE

\* The less function NormalizeStorageSummary sorts its keys with
DriveKeyLess(ki, kj) ==
    IF ki.mediaType # kj.mediaType
    THEN IF ki.mediaType = SSD THEN TRUE
         ELSE IF kj.mediaType = SSD THEN FALSE
         ELSE StringLess(ki.mediaType, kj.mediaType)
    ELSE ki.capacityGB > kj.capacityGB

\* NormalizeStorageSummary: the keys are distinct and DriveKeyLess orders
\* them totally, so every sorting algorithm gives the same sequence
NormalizeStorageSummary(drives) ==
    IF Len(drives) = 0 THEN <<"n", "o", " ", "d", "r", "i", "v", "e", "s">>
    ELSE LET keys == SortSeq(DriveKeys(drives), DriveKeyLess)
             count(k) == Cardinality({i \in DOMAIN drives : DriveKey(drives[i]) = k})
             part(k) == Itoa(count(k)) \o <<"x">> \o Itoa(k.capacityGB)
                            \o <<"G", "B", " ">> \o k.mediaType
         IN Join([i \in DOMAIN keys |-> part(keys[i])], <<",", " ">>)

\* buildFingerprint
buildFingerprint(s) ==
    LET c == FirstIndex([i \in DOMAIN s.CPUs |-> s.CPUs[i].Cores > 0])
        m == FirstIndex([i \in DOMAIN s.Memory |-> s.Memory[i].State = StateEnabled])
    IN [Manufacturer      |-> s.Manufacturer,
        Model             |-> s.Model,
        CPUCount          |-> s.CPUCount,
        CPUModel          |-> IF c # 0 /\ s.CPUModel = <<>>
                              THEN s.CPUs[c].Model ELSE s.CPUModel,
        CPUCoresPerSocket |-> IF c # 0 THEN s.CPUs[c].Cores ELSE 0,
        CPUSpeedMHz       |-> IF c # 0 THEN s.CPUs[c].MaxSpeedMHz ELSE 0,
        RAMTotalGiB       |-> RoundTenths(s.TotalMemoryGiB),
        RAMModuleSizeGiB  |-> IF m # 0 THEN (s.Memory[m].CapacityMiB + 512) \div 1024
                              ELSE 0,
        RAMType           |-> IF m # 0 THEN s.Memory[m].Type ELSE <<>>,
        RAMSpeedMHz       |-> IF m # 0 THEN s.Memory[m].SpeedMHz ELSE 0,
        RAMSlotsTotal     |-> s.MemorySlotsTotal,
        StorageSummary    |-> NormalizeStorageSummary(s.Drives),
        GPUCount          |-> s.GPUCount,
        GPUModel          |-> IF Len(s.GPUs) > 0 THEN s.GPUs[1].Model ELSE <<>>,
        GPUMemoryGiB      |-> IF Len(s.GPUs) > 0
                              THEN (s.GPUs[1].MemoryMiB + 512) \div 1024 ELSE 0]

\* The inventory while the loop of GroupByConfiguration runs: ModelGroups
\* holds modelMap's groups in modelOrder's order, configIdxMap maps a
\* combined key to a 0-based index, panicked records an index out of range
NewInventory(list) ==
    [status          |-> "returned",
     TotalServers    |-> Len(list),
     SuccessfulCount |-> 0,
     FailedCount     |-> 0,
     ModelGroups     |-> <<>>,
     FailedServers   |-> <<>>,
     configIdxMap    |-> <<>>]

Panicked == [status |-> "panic"]

\* fmt.Sprintf("%s|%s\x00%s", mk.manufacturer, mk.model, fp.Key())
CombKey(manufacturer, model, fp) ==
    manufacturer \o <<"|">> \o model \o <<NUL>> \o Key(fp)

ConfigGroupAddKeepsCount(g, srv) == [g EXCEPT !.Servers = Append(@, srv)]

\* A server joins an existing config group
ConfigGroupAdd(g, srv) ==
    [g EXCEPT !.Servers = Append(@, srv), !.Count = @ + 1]

\* The config group a server founds
NewConfigGroup(fp, srv) == [Fingerprint |-> fp, Count |-> 1, Servers |-> <<srv>>]

\* One iteration of the loop over servers
AddServer(inv, srv) ==
    IF inv.status = "panic" THEN inv
    ELSE IF srv.Error # Nil
    THEN [inv EXCEPT !.FailedServers = Append(@, srv), !.FailedCount = @ + 1]
    ELSE
      LET isMk(gs) == [i \in DOMAIN gs |-> /\ gs[i].Manufacturer = srv.Manufacturer
                                             /\ gs[i].Model = srv.Model]
          groups == IF FirstIndex(isMk(inv.ModelGroups)) = 0
                    THEN Append(inv.ModelGroups,
                                [Manufacturer |-> srv.Manufacturer,
                                 Model        |-> srv.Model,
                                 TotalCount   |-> 0,
                                 ConfigGroups |-> <<>>])
                    ELSE inv.ModelGroups
          gi == FirstIndex(isMk(groups))
          fp == buildFingerprint(srv)
          combKey == CombKey(srv.Manufacturer, srv.Model, fp)
          n == Len(groups[gi].ConfigGroups)
      IN IF combKey \in DOMAIN inv.configIdxMap
         THEN LET idx == inv.configIdxMap[combKey]
              IN IF idx >= n THEN Panicked
                 ELSE [inv EXCEPT
                         !.SuccessfulCount = @ + 1,
                         !.ModelGroups =
                             [groups EXCEPT
                                ![gi].TotalCount = @ + 1,
                                ![gi].ConfigGroups[idx + 1] = ConfigGroupAdd(@, srv)]]
         ELSE [inv EXCEPT
                 !.SuccessfulCount = @ + 1,
                 !.configIdxMap = (combKey :> n) @@ @,
                 !.ModelGroups =
                     [groups EXCEPT
                        ![gi].TotalCount = @ + 1,
                        ![gi].ConfigGroups = Append(@, NewConfigGroup(fp, srv))]]

\* The loop over the first n servers
RECURSIVE AddServers(_, _)
AddServers(list, n) ==
    IF n = 0 THEN NewInventory(list)
    ELSE AddServer(AddServers(list, n - 1), list[n])

\* sort.Slice promises an order that agrees with less and no more ("the
\* sort is not guaranteed to be stable"): every arrangement of s in which
\* the counts, counts[i] being that of s[i], never rise
SortSlice(s, counts) ==
    LET n == Len(s)
        perms == {p \in [1..n -> 1..n] : \A i, j \in 1..n : i # j => p[i] # p[j]}
    IN {[i \in 1..n |-> s[p[i]]] : p \in
           {q \in perms : \A i \in 1..(n - 1) : counts[q[i]] >= counts[q[i + 1]]}}

\* What GroupByConfiguration may return for a list of servers: the panic, or
\* the inventory with its model groups and each group's config groups sorted
GroupByConfiguration(list) ==
    LET inv == AddServers(list, Len(list))
        totalCounts(ms) == [i \in DOMAIN ms |-> ms[i].TotalCount]
        sorted(cs) == SortSlice(cs, [k \in DOMAIN cs |-> cs[k].Count])
        sortConfigs(ms) ==
            {[i \in DOMAIN ms |-> [ms[i] EXCEPT !.ConfigGroups = c[i]]] :
                c \in {f \in [DOMAIN ms ->
                                 UNION {sorted(ms[i].ConfigGroups) : i \in DOMAIN ms}] :
                          \A i \in DOMAIN ms : f[i] \in sorted(ms[i].ConfigGroups)}}
    IN IF inv.status = "panic" THEN {Panicked}
       ELSE {[status          |-> "returned",
              TotalServers    |-> inv.TotalServers,
              SuccessfulCount |-> inv.SuccessfulCount,
              FailedCount     |-> inv.FailedCount,
              ModelGroups     |-> gs,
              FailedServers   |-> inv.FailedServers] :
                gs \in UNION {sortConfigs(ms) :
                                 ms \in SortSlice(inv.ModelGroups,
                                                  totalCounts(inv.ModelGroups))}}

\* The records handed to the aggregator: two manufacturer/model pairs whose
\* "manufacturer|model" strings are equal, one plain pair, two CPU counts,
\* and a record whose scan failed
Vendor == <<"a">>
VendorBar == <<"a", "|", "b">>
ModelBar == <<"b", "|", "c">>
ModelPlain == <<"c">>

AggServer(err, manufacturer, model, cpuCount) ==
    [Host             |-> 0,
     Error            |-> err,
     Manufacturer     |-> manufacturer,
     Model            |-> model,
     CPUCount         |-> cpuCount,
     CPUModel         |-> <<>>,
     CPUs             |-> <<[Cores |-> 0, MaxSpeedMHz |-> 0, Model |-> <<>>],
                            [Cores |-> 8, MaxSpeedMHz |-> 3000, Model |-> <<"X">>]>>,
     TotalMemoryGiB   |-> 640,
     MemorySlotsTotal |-> 2,
     Memory           |-> <<[State |-> StateAbsent, Type |-> <<>>, SpeedMHz |-> 0,
                             CapacityMiB |-> 0],
                            [State |-> StateEnabled, Type |-> <<"D", "D", "R", "4">>,
                             SpeedMHz |-> 3200, CapacityMiB |-> 32768]>>,
     Drives           |-> <<[CapacityGB |-> 20004, MediaType |-> HDD],
                            [CapacityGB |-> 4796, MediaType |-> SSD],
                            [CapacityGB |-> 4804, MediaType |-> SSD]>>,
     GPUCount         |-> 0,
     GPUs             |-> <<>>]

AggServers ==
    {AggServer(Nil, VendorBar, ModelPlain, 1), AggServer(Nil, VendorBar, ModelPlain, 2),
     AggServer(Nil, Vendor, ModelBar, 1), AggServer(Nil, Vendor, ModelBar, 2),
     AggServer(Nil, Vendor, ModelPlain, 1),
     AggServer(CollectionErrorSystem, <<>>, <<>>, 0)}

\* Any list of up to MaxRecords records, each under its own host
AggInit ==
    /\ cfgConcurrency = 1
    /\ concurrency = 0
    /\ servers = <<>>
    /\ bmc = <<>>
    /\ cancelledAt = <<>>
    /\ ctxDone = FALSE
    /\ jobs = <<>>
    /\ jobsClosed = FALSE
    /\ results = <<>>
    /\ resultsClosed = FALSE
    /\ mainPc = "unbuilt"
    /\ mainIdx = 1
    /\ wpc = <<>>
    /\ wjob = <<>>
    /\ winfo = <<>>
    /\ closerPc = "unborn"
    /\ serverInfos = <<>>
    /\ stats = NoStats
    /\ \E list \in SeqsUpTo(AggServers, MaxRecords) :
           aggServers = [i \in DOMAIN list |-> [list[i] EXCEPT !.Host = i]]
    /\ aggInv = NoInventory
    /\ OtherIdle

\* models.GroupByConfiguration(servers, stats)
Aggregate ==
    /\ aggInv.status = "none"
    /\ aggInv' \in GroupByConfiguration(aggServers)
    /\ UNCHANGED <<otherVars, aggServers, cfgConcurrency, concurrency, servers, bmc, ctxDone,
                   cancelledAt, jobs, jobsClosed, results, resultsClosed, mainPc,
                   mainIdx, wpc, wjob, winfo, closerPc, serverInfos, stats>>

AggNext == Aggregate

AggSpec == AggInit /\ [][AggNext]_vars

\* The sum of Count over the config groups of a sequence of model groups
RECURSIVE SumCounts(_)
SumCounts(groups) ==
    IF groups = <<>> THEN 0
    ELSE LET cs == groups[1].ConfigGroups
             RECURSIVE sum(_)
             sum(k) == IF k = 0 THEN 0 ELSE cs[k].Count + sum(k - 1)
         IN sum(Len(cs)) + SumCounts(Tail(groups))

\* C10: in every inventory GroupByConfiguration returns, the counts of all
\* config groups of all model groups add up to successful_count, and
\* successful_count is the number of input records whose error is nil.
C10_CountsSumToSuccessful ==
    aggInv.status = "returned" =>
        /\ SumCounts(aggInv.ModelGroups) = aggInv.SuccessfulCount
        /\ aggInv.SuccessfulCount = SuccessfulCount(aggServers)

\* C10 witness: an inventory with two model groups, a config group of two
\* servers and a failed record beside them
C10_Witness ==
    /\ aggInv.status = "returned"
    /\ Len(aggInv.ModelGroups) = 2
    /\ \E i \in DOMAIN aggInv.ModelGroups :
           \E k \in DOMAIN aggInv.ModelGroups[i].ConfigGroups :
               aggInv.ModelGroups[i].ConfigGroups[k].Count = 2
    /\ aggInv.FailedCount = 1

\* The places <<i, k>> of the returned inventory, model group i and config
\* group k, whose Servers hold the record of host h
PlacesOf(h) ==
    {<<i, k>> \in (DOMAIN aggInv.ModelGroups) \X (1..MaxRecords) :
        /\ k \in DOMAIN aggInv.ModelGroups[i].ConfigGroups
        /\ \E n \in DOMAIN aggInv.ModelGroups[i].ConfigGroups[k].Servers :
               aggInv.ModelGroups[i].ConfigGroups[k].Servers[n].Host = h}

\* The hosts of the input records whose error is nil
SuccessfulHosts == {h \in DOMAIN aggServers : aggServers[h].Error = Nil}

\* C11 (as claimed): two successful records of one aggregation share a
\* config group exactly when their fingerprints are equal in every field.
C11_SameGroupIffSameFingerprint ==
    aggInv.status = "returned" =>
        \A g, h \in SuccessfulHosts :
            (PlacesOf(g) \cap PlacesOf(h) # {}) <=>
                (buildFingerprint(aggServers[g]) = buildFingerprint(aggServers[h]))

\* The input position at which a config group was first met: that of the
\* earliest of its servers
FirstSeenConfig(cg) ==
    CHOOSE h \in {cg.Servers[n].Host : n \in DOMAIN cg.Servers} :
        \A n \in DOMAIN cg.Servers : h <= cg.Servers[n].Host

\* The input position at which a model group was first met
FirstSeenModel(mg) ==
    CHOOSE h \in {FirstSeenConfig(mg.ConfigGroups[k]) : k \in DOMAIN mg.ConfigGroups} :
        \A k \in DOMAIN mg.ConfigGroups : h <= FirstSeenConfig(mg.ConfigGroups[k])

\* C12 (as claimed): model groups come by total_count descending, config
\* groups by count descending, and groups of equal count in the order in
\* which the input first met them.
C12_OrderedFirstSeenOnTies ==
    aggInv.status = "returned" =>
        LET mgs == aggInv.ModelGroups
        IN /\ \A i, j \in DOMAIN mgs :
                 i < j =>
                    \/ mgs[i].TotalCount > mgs[j].TotalCount
                    \/ /\ mgs[i].TotalCount = mgs[j].TotalCount
                       /\ FirstSeenModel(mgs[i]) < FirstSeenModel(mgs[j])
           /\ \A i \in DOMAIN mgs :
                 \A k, l \in DOMAIN mgs[i].ConfigGroups :
                    k < l =>
                       LET a == mgs[i].ConfigGroups[k]
                           b == mgs[i].ConfigGroups[l]
                       IN \/ a.Count > b.Count
                          \/ a.Count = b.Count /\ FirstSeenConfig(a) < FirstSeenConfig(b)

\* The concatenation of a sequence of sequences
RECURSIVE Concat(_)
Concat(ss) == IF ss = <<>> THEN <<>> ELSE ss[1] \o Concat(Tail(ss))

\* The flattened host list of an inventory: the servers of every config
\* group of every model group in the inventory's order, then the failed ones
FlatHosts(inv) ==
    Concat([i \in DOMAIN inv.ModelGroups |->
               Concat([k \in DOMAIN inv.ModelGroups[i].ConfigGroups |->
                          inv.ModelGroups[i].ConfigGroups[k].Servers])])
        \o inv.FailedServers

\* C13 (as claimed): aggregating the flattened host list of a returned
\* inventory gives that inventory again. Stated in the form most favourable
\* to the code: the inventory is among the results the second aggregation
\* may give.
C13_AggregationIdempotent ==
    aggInv.status = "returned" =>
        aggInv \in GroupByConfiguration(FlatHosts(aggInv))

\* ------------------------------------------------------- storage summary
MaxDrives == 3

\* No scanner has been built and no aggregation asked for
ScanIdle ==
    /\ cfgConcurrency = 1
    /\ concurrency = 0
    /\ servers = <<>>
    /\ bmc = <<>>
    /\ cancelledAt = <<>>
    /\ ctxDone = FALSE
    /\ jobs = <<>>
    /\ jobsClosed = FALSE
    /\ results = <<>>
    /\ resultsClosed = FALSE
    /\ mainPc = "unbuilt"
    /\ mainIdx = 1
    /\ wpc = <<>>
    /\ wjob = <<>>
    /\ winfo = <<>>
    /\ closerPc = "unborn"
    /\ serverInfos = <<>>
    /\ stats = NoStats

AggIdle ==
    /\ aggServers = <<>>
    /\ aggInv = NoInventory

scanVars == <<cfgConcurrency, concurrency, servers, bmc, ctxDone, cancelledAt, jobs,
              jobsClosed, results, resultsClosed, mainPc, mainIdx, wpc, wjob, winfo,
              closerPc, serverInfos, stats>>

\* The drives a record may hold: capacities in tenths of a GB, two of which
\* round to the same GB, and three media types, one of them empty
DriveSet ==
    {[CapacityGB |-> 4796, MediaType |-> SSD], [CapacityGB |-> 4804, MediaType |-> SSD],
     [CapacityGB |-> 9600, MediaType |-> SSD], [CapacityGB |-> 20004, MediaType |-> HDD],
     [CapacityGB |-> 9600, MediaType |-> <<>>]}

\* Any drive list of up to MaxDrives drives
SummaryInit ==
    /\ ScanIdle
    /\ AggIdle
    /\ sumDrives \in SeqsUpTo(DriveSet, MaxDrives)
    /\ sumReordered = sumDrives
    /\ summary = NoSummary
    /\ summaryReordered = NoSummary
    /\ SyncIdle
    /\ RangeIdle

\* The drive list reaches the aggregator in another order: two drives swap
Reorder ==
    /\ summary = NoSummary
    /\ \E i, j \in DOMAIN sumReordered :
           /\ i < j
           /\ sumReordered' = [sumReordered EXCEPT ![i] = sumReordered[j],
                                                   ![j] = sumReordered[i]]
    /\ UNCHANGED <<scanVars, aggVars, syncVars, rangeVars, sumDrives, summary, summaryReordered>>

\* buildFingerprint: StorageSummary: NormalizeStorageSummary(s.Drives), for
\* the record with either drive order
Summarize ==
    /\ summary = NoSummary
    /\ summary' = NormalizeStorageSummary(sumDrives)
    /\ summaryReordered' = NormalizeStorageSummary(sumReordered)
    /\ UNCHANGED <<scanVars, aggVars, syncVars, rangeVars, sumDrives, sumReordered>>

SummaryNext == Reorder \/ Summarize

SummarySpec == SummaryInit /\ [][SummaryNext]_vars

\* C14: the storage summary of a record is the same string for every
\* ordering of its drives.
C14_SummaryIgnoresDriveOrder ==
    summary # NoSummary => summaryReordered = summary

\* C14 witness: a summary of three drives in two buckets, computed for a
\* drive list that was given in another order
C14_Witness ==
    /\ summary # NoSummary
    /\ sumReordered # sumDrives
    /\ Len(sumDrives) = 3
    /\ Len(DriveKeys(sumDrives)) = 2

\* ---------------------------------------------------- asset-system client
\* The members of FieldNames: the custom fields a client is configured with
FieldNames ==
    {"CPUCount", "CPUModel", "CPUCores", "RAMTotalGB", "RAMSlotsTotal",
     "RAMSlotsUsed", "RAMSlotsAvailable", "RAMType", "RAMSpeedMHz", "DiskCount",
     "StorageSummary", "StorageTotalTB", "BIOSVersion", "PowerState",
     "PowerConsumedWatts", "PowerPeakWatts", "LastInventory", "GPUCount",
     "GPUModel", "GPUMemoryGB"}

\* The fields whose values are integers
IntegerFields ==
    {"CPUCount", "CPUCores", "RAMTotalGB", "RAMSlotsTotal", "RAMSlotsUsed",
     "RAMSlotsAvailable", "RAMSpeedMHz", "DiskCount", "PowerConsumedWatts",
     "PowerPeakWatts", "GPUCount", "GPUMemoryGB"}

\* fields[name] = value when cond holds
Put(fields, cond, name, value) == IF cond THEN (name :> value) @@ fields ELSE fields

\* fmt.Sprintf("%.2f", x) of a non-negative float64 held in hundredths
FormatHundredths(x) ==
    Itoa(x \div 100) \o <<".", Digits[((x \div 10) % 10) + 1], Digits[(x % 10) + 1]>>

\* time.Time.Format(time.RFC3339) of a time held as a number of seconds: one
\* string per time
FormatRFC3339(seconds) == <<"T">> \o Itoa(seconds)

\* The distinct elements of a sequence in the order they are first met
RECURSIVE Distinct(_)
Distinct(s) ==
    IF s = <<>> THEN <<>>
    ELSE LET rest == Distinct(SubSeq(s, 1, Len(s) - 1))
         IN IF s[Len(s)] \in Range(rest) THEN rest ELSE Append(rest, s[Len(s)])

\* buildStorageSummary: drives counted per int(CapacityGB), capacities
\* ascending (sort.Ints)
buildStorageSummary(drivelist) ==
    LET cap(i) == drivelist[i].CapacityGB \div 10
        caps == SortSeq(Distinct([i \in DOMAIN drivelist |-> cap(i)]),
                        LAMBDA a, b : a < b)
        count(c) == Cardinality({i \in DOMAIN drivelist : cap(i) = c})
    IN Join([i \in DOMAIN caps |->
                Itoa(count(caps[i])) \o <<"x">> \o Itoa(caps[i]) \o <<"G", "B">>],
            <<",", " ">>)

\* buildGPUSummary: GPUs counted per (model, int(MemoryGB())), in the order
\* first met
buildGPUSummary(gpus) ==
    LET key(i) == [model |-> gpus[i].Model, memoryGB |-> gpus[i].MemoryMiB \div 1024]
        order == Distinct([i \in DOMAIN gpus |-> key(i)])
        count(k) == Cardinality({i \in DOMAIN gpus : key(i) = k})
        entry(k) == Itoa(count(k)) \o <<"x", " ">> \o k.model
                        \o (IF k.memoryGB > 0
                            THEN <<" ", "(">> \o Itoa(k.memoryGB) \o <<" ", "G", "B", ")">>
                            ELSE <<>>)
    IN Join([i \in DOMAIN order |-> entry(order[i])], <<",", " ">>)

\* The sum of MemoryMiB over a GPU list
RECURSIVE TotalVRAM(_)
TotalVRAM(gpus) ==
    IF gpus = <<>> THEN 0 ELSE gpus[1].MemoryMiB + TotalVRAM(Tail(gpus))

\* buildCustomFields: the custom_fields map of a PATCH body, keyed by the
\* member of FieldNames whose configured name it is written under
buildCustomFields(info) ==
    LET m == FirstIndex([i \in DOMAIN info.Memory |-> info.Memory[i].State = StateEnabled])
        f0 == ("CPUCount" :> info.CPUCount)
              @@ ("CPUModel" :> info.CPUModel)
              @@ ("RAMTotalGB" :> info.TotalMemoryGiB \div 10)
              @@ ("RAMSlotsTotal" :> info.MemorySlotsTotal)
              @@ ("RAMSlotsUsed" :> info.MemorySlotsUsed)
              @@ ("RAMSlotsAvailable" :> info.MemorySlotsFree)
              @@ ("StorageTotalTB" :> FormatHundredths(info.TotalStorageTB))
              @@ ("BIOSVersion" :> info.BiosVersion)
              @@ ("PowerState" :> info.PowerState)
              @@ ("LastInventory" :> FormatRFC3339(info.CollectedAt))
        f1 == Put(f0, Len(info.CPUs) > 0, "CPUCores",
                  IF Len(info.CPUs) > 0 THEN info.CPUs[1].Cores ELSE 0)
        f2 == Put(f1, m # 0, "RAMType", IF m # 0 THEN info.Memory[m].Type ELSE <<>>)
        f3 == Put(f2, m # 0, "RAMSpeedMHz", IF m # 0 THEN info.Memory[m].SpeedMHz ELSE 0)
        f4 == Put(f3, TRUE, "DiskCount", info.DriveCount)
        f5 == Put(f4, Len(info.Drives) > 0, "StorageSummary",
                  buildStorageSummary(info.Drives))
        f6 == Put(f5, info.PowerConsumedWatts > 0, "PowerConsumedWatts",
                  info.PowerConsumedWatts)
        f7 == Put(f6, info.PowerPeakWatts > 0, "PowerPeakWatts", info.PowerPeakWatts)
        f8 == Put(f7, TRUE, "GPUCount", info.GPUCount)
        f9 == Put(f8, Len(info.GPUs) > 0, "GPUModel", buildGPUSummary(info.GPUs))
    IN Put(f9, Len(info.GPUs) > 0 /\ TotalVRAM(info.GPUs) > 0, "GPUMemoryGB",
           TotalVRAM(info.GPUs) \div 1024)

\* The records handed to the asset-system client. A full record has CPUs,
\* a populated DIMM behind an absent one, drives, a GPU and power readings;
\* a bare one has none of them.
SyncServer(err, serviceTag, serialNumber, full) ==
    [Host               |-> 0,
     Error              |-> err,
     ServiceTag         |-> serviceTag,
     SerialNumber       |-> serialNumber,
     CollectedAt        |-> 7,
     CPUCount           |-> IF full THEN 2 ELSE 0,
     CPUModel           |-> IF full THEN <<"X">> ELSE <<>>,
     CPUs               |-> IF full
                            THEN <<[Cores |-> 8, MaxSpeedMHz |-> 3000, Model |-> <<"X">>]>>
                            ELSE <<>>,
     TotalMemoryGiB     |-> IF full THEN 640 ELSE 0,
     MemorySlotsTotal   |-> IF full THEN 2 ELSE 0,
     MemorySlotsUsed    |-> IF full THEN 1 ELSE 0,
     MemorySlotsFree    |-> IF full THEN 1 ELSE 0,
     Memory             |-> IF full
                            THEN <<[State |-> StateAbsent, Type |-> <<>>, SpeedMHz |-> 0,
                                    CapacityMiB |-> 0],
                                   [State |-> StateEnabled, Type |-> <<"D", "D", "R", "4">>,
                                    SpeedMHz |-> 3200, CapacityMiB |-> 32768]>>
                            ELSE <<[State |-> StateAbsent, Type |-> <<>>, SpeedMHz |-> 0,
                                    CapacityMiB |-> 0]>>,
     DriveCount         |-> IF full THEN 3 ELSE 0,
     Drives             |-> IF full
                            THEN <<[CapacityGB |-> 20004, MediaType |-> HDD],
                                   [CapacityGB |-> 4804, MediaType |-> SSD],
                                   [CapacityGB |-> 4809, MediaType |-> SSD]>>
                            ELSE <<>>,
     TotalStorageTB     |-> IF full THEN 296 ELSE 0,
     BiosVersion        |-> IF full THEN <<"2", ".", "0">> ELSE <<>>,
     PowerState         |-> IF full THEN <<"O", "n">> ELSE <<>>,
     PowerConsumedWatts |-> IF full THEN 420 ELSE 0,
     PowerPeakWatts     |-> IF full THEN 500 ELSE 0,
     GPUCount           |-> IF full THEN 1 ELSE 0,
     GPUs               |-> IF full THEN <<[Model |-> <<"A">>, MemoryMiB |-> 81920]>>
                            ELSE <<>>]

Tag == <<"T", "1">>
Serial == <<"S", "1">>

SyncServers ==
    {SyncServer(Nil, Tag, Serial, TRUE), SyncServer(Nil, Tag, Serial, FALSE),
     SyncServer(Nil, <<>>, Serial, TRUE), SyncServer(Nil, Tag, <<>>, TRUE),
     SyncServer(Nil, <<>>, <<>>, FALSE),
     SyncServer(CollectionErrorSystem, <<>>, <<>>, FALSE)}

MaxSyncRecords == 2

\* What the asset system may answer to a device query: a transport, HTTP
\* or decode error, or a DeviceList; the last one counts a device it does
\* not list
Device1 == [ID |-> 1]
Device2 == [ID |-> 2]
DeviceLists ==
    {[failed |-> TRUE, Count |-> 0, Results |-> <<>>],
     [failed |-> FALSE, Count |-> 0, Results |-> <<>>],
     [failed |-> FALSE, Count |-> 1, Results |-> <<Device1>>],
     [failed |-> FALSE, Count |-> 2, Results |-> <<Device2, Device1>>],
     [failed |-> FALSE, Count |-> 1, Results |-> <<>>]}

\* SyncAll is called with any list of up to MaxSyncRecords records
SyncInit ==
    /\ ScanIdle
    /\ AggIdle
    /\ SummaryIdle
    /\ RangeIdle
    /\ \E list \in SeqsUpTo(SyncServers, MaxSyncRecords) :
           syncServers = [i \in DOMAIN list |-> [list[i] EXCEPT !.Host = i]]
    /\ syncIdx = 1
    /\ syncPc = "record"
    /\ syncDevice = NoDevice
    /\ syncResults = <<>>
    /\ requests = <<>>

\* The record SyncAll is at
SyncInfo == syncServers[syncIdx]
InLoop == syncIdx \in DOMAIN syncServers

NoError == <<>>
ErrSkippedUnmarked(info) == <<"collection failed with error: ", info.Error>>
ErrSkipped(info) == <<"skipped:", " collection failed with error: ", info.Error>>
ErrRequest == <<"request failed">>
ErrNotFound(info) ==
    <<"device not found in NetBox (service_tag=", info.ServiceTag, ", serial=",
      info.SerialNumber, ")">>
ErrUpdate(id) == <<"failed to update device ", id, ": ", "request failed">>

\* results = append(results, result), and on to the next record
AppendResult(success, err) ==
    /\ syncResults' = Append(syncResults, [Host |-> SyncInfo.Host, Success |-> success,
                                           Error |-> err])
    /\ syncIdx' = syncIdx + 1
    /\ syncPc' = "record"
    /\ syncDevice' = NoDevice

\* c.request: the request goes out and the asset system answers
Request(method, param, value, answer) ==
    requests' = Append(requests, [Host |-> SyncInfo.Host, Method |-> method,
                                  Param |-> param, Value |-> value, Answer |-> answer])

\* SyncAll: a record whose collection failed is skipped
SyncSkip ==
    /\ syncPc = "record" /\ InLoop
    /\ SyncInfo.Error # Nil
    /\ AppendResult(FALSE, ErrSkipped(SyncInfo))
    /\ UNCHANGED <<scanVars, aggVars, summaryVars, rangeVars, syncServers, requests>>

AfterQueryGoesOnAfterError(answer, onZero) ==
    IF ~answer.failed /\ answer.Count > 0
    THEN IF Len(answer.Results) = 0
         THEN /\ syncPc' = "panic"
              /\ UNCHANGED <<syncIdx, syncDevice, syncResults>>
         ELSE /\ syncPc' = "patch"
              /\ syncDevice' = answer.Results[1]
              /\ UNCHANGED <<syncIdx, syncResults>>
    ELSE /\ syncPc' = onZero
         /\ UNCHANGED <<syncIdx, syncDevice, syncResults>>

AfterQueryTakesLast(answer, onZero) ==
    IF answer.failed THEN AppendResult(FALSE, ErrRequest)
    ELSE IF answer.Count > 0
    THEN IF Len(answer.Results) = 0
         THEN /\ syncPc' = "panic"
              /\ UNCHANGED <<syncIdx, syncDevice, syncResults>>
         ELSE /\ syncPc' = "patch"
              /\ syncDevice' = answer.Results[Len(answer.Results)]
              /\ UNCHANGED <<syncIdx, syncResults>>
    ELSE /\ syncPc' = onZero
         /\ UNCHANGED <<syncIdx, syncDevice, syncResults>>

\* What a device query's answer leads to: the error ends the record's sync,
\* a positive Count takes Results[0], which panics on an empty Results
\* (index out of range), and a zero Count goes on to onZero
AfterQuery(answer, onZero) ==
    IF answer.failed THEN AppendResult(FALSE, ErrRequest)
    ELSE IF answer.Count > 0
    THEN IF Len(answer.Results) = 0
         THEN /\ syncPc' = "panic"
              /\ UNCHANGED <<syncIdx, syncDevice, syncResults>>
         ELSE /\ syncPc' = "patch"
              /\ syncDevice' = answer.Results[1]
              /\ UNCHANGED <<syncIdx, syncResults>>
    ELSE /\ syncPc' = onZero
         /\ UNCHANGED <<syncIdx, syncDevice, syncResults>>

\* findDevice is at its lookup by serial number: the service tag is empty,
\* or both lookups by service tag answered zero
AtSerialLookup ==
    \/ syncPc = "serial"
    \/ syncPc = "record" /\ InLoop /\ SyncInfo.Error = Nil /\ SyncInfo.ServiceTag = <<>>

\* FindDeviceByServiceTag: GET ?asset_tag=<service tag>
ProbeAssetTag ==
    /\ syncPc = "record" /\ InLoop
    /\ SyncInfo.Error = Nil
    /\ SyncInfo.ServiceTag # <<>>
    /\ \E answer \in DeviceLists :
           /\ Request("GET", "asset_tag", SyncInfo.ServiceTag, answer)
           /\ AfterQuery(answer, "serialByTag")
    /\ UNCHANGED <<scanVars, aggVars, summaryVars, rangeVars, syncServers>>

\* FindDeviceByServiceTag falls back to FindDeviceBySerial(serviceTag)
ProbeSerialByTag ==
    /\ syncPc = "serialByTag"
    /\ \E answer \in DeviceLists :
           /\ Request("GET", "serial", SyncInfo.ServiceTag, answer)
           /\ AfterQuery(answer, "serial")
    /\ UNCHANGED <<scanVars, aggVars, summaryVars, rangeVars, syncServers>>

\* findDevice: FindDeviceBySerial(info.SerialNumber)
ProbeSerial ==
    /\ AtSerialLookup
    /\ SyncInfo.SerialNumber # <<>>
    /\ \E answer \in DeviceLists :
           /\ Request("GET", "serial", SyncInfo.SerialNumber, answer)
           /\ AfterQuery(answer, "notfound")
    /\ UNCHANGED <<scanVars, aggVars, summaryVars, rangeVars, syncServers>>

\* SyncServerInfo: findDevice returned no device and no error
NotFound ==
    /\ \/ syncPc = "notfound"
       \/ AtSerialLookup /\ SyncInfo.SerialNumber = <<>>
    /\ AppendResult(FALSE, ErrNotFound(SyncInfo))
    /\ UNCHANGED <<scanVars, aggVars, summaryVars, rangeVars, syncServers, requests>>

\* UpdateDeviceCustomFields: PATCH <devices path><id>/ with the custom fields
Patch ==
    /\ syncPc = "patch"
    /\ \E failed \in BOOLEAN :
           /\ Request("PATCH", syncDevice.ID, buildCustomFields(SyncInfo),
                      [failed |-> failed])
           /\ IF failed THEN AppendResult(FALSE, ErrUpdate(syncDevice.ID))
              ELSE AppendResult(TRUE, NoError)
    /\ UNCHANGED <<scanVars, aggVars, summaryVars, rangeVars, syncServers>>

\* SyncAll: return results
SyncReturn ==
    /\ syncPc = "record" /\ ~InLoop
    /\ syncPc' = "returned"
    /\ UNCHANGED <<scanVars, aggVars, summaryVars, rangeVars, syncServers, syncIdx, syncDevice,
                   syncResults, requests>>

SyncNext ==
    \/ SyncSkip
    \/ ProbeAssetTag
    \/ ProbeSerialByTag
    \/ ProbeSerial
    \/ NotFound
    \/ Patch
    \/ SyncReturn

SyncSpec == SyncInit /\ [][SyncNext]_vars

\* C15 (as claimed): whatever the asset system answers, SyncAll completes
\* with exactly one result per input record, in input order; while it runs
\* it has one result for each record it has passed.
C15_OneResultPerRecord ==
    /\ syncPc # "panic"
    /\ syncPc # "idle" =>
          /\ Len(syncResults) = syncIdx - 1
          /\ \A i \in DOMAIN syncResults : syncResults[i].Host = syncServers[i].Host
    /\ syncPc = "returned" => Len(syncResults) = Len(syncServers)

\* The requests sent for the record of host h
RequestsFor(h) == {n \in DOMAIN requests : requests[n].Host = h}

\* C16: for a record whose collection error is set SyncAll sends no request
\* to the asset system, and its result has success false and an error that
\* begins with "skipped:".
C16_FailedRecordSkipped ==
    \A i \in DOMAIN syncServers :
        syncServers[i].Error # Nil =>
            /\ RequestsFor(i) = {}
            /\ i \in DOMAIN syncResults =>
                  /\ ~syncResults[i].Success
                  /\ syncResults[i].Error # NoError
                  /\ syncResults[i].Error[1] = "skipped:"

\* C16 witness: SyncAll has returned; it skipped the first record and
\* patched the device of the second
C16_Witness ==
    /\ syncPc = "returned"
    /\ Len(syncServers) = 2
    /\ syncServers[1].Error # Nil
    /\ syncResults[1].Error[1] = "skipped:"
    /\ syncResults[2].Success
    /\ RequestsFor(2) # {}

\* The device queries sent for the record of host h, in the order sent
QueriesFor(h) == SelectSeq(requests, LAMBDA r : r.Host = h /\ r.Method = "GET")

\* The PATCH requests sent for the record of host h
PatchesFor(h) == SelectSeq(requests, LAMBDA r : r.Host = h /\ r.Method = "PATCH")

\* The probes of the lookup protocol for a record, in order; a probe for an
\* empty identifier is not sent
Probes(info) ==
    SelectSeq(IF info.ServiceTag # <<>>
              THEN <<[Param |-> "asset_tag", Value |-> info.ServiceTag],
                     [Param |-> "serial", Value |-> info.ServiceTag],
                     [Param |-> "serial", Value |-> info.SerialNumber]>>
              ELSE <<[Param |-> "serial", Value |-> info.SerialNumber]>>,
              LAMBDA q : q.Value # <<>>)

\* C17: the queries for a record are the probes of the protocol in their
\* order (asset_tag=service_tag, serial=service_tag, serial=serial_number;
\* only the last with an empty service tag), each later one sent only after
\* the one before answered zero; a record is given up as not found only
\* after all of them; and the device patched is the first result of the
\* first probe that answered a positive count.
C17_LookupOrder ==
    \A h \in DOMAIN syncServers :
        LET q == QueriesFor(h)
            probes == Probes(syncServers[h])
        IN /\ Len(q) <= Len(probes)
           /\ \A n \in DOMAIN q :
                 /\ q[n].Param = probes[n].Param
                 /\ q[n].Value = probes[n].Value
                 /\ n > 1 => ~q[n - 1].Answer.failed /\ q[n - 1].Answer.Count = 0
           /\ (h \in DOMAIN syncResults /\ syncResults[h].Error = ErrNotFound(syncServers[h]))
                 => Len(q) = Len(probes)
           /\ \A n \in DOMAIN PatchesFor(h) :
                 /\ q # <<>>
                 /\ q[Len(q)].Answer.Count > 0
                 /\ PatchesFor(h)[n].Param = q[Len(q)].Answer.Results[1].ID

\* C17 witness: both lookups by service tag answered zero, the lookup by
\* serial number listed two devices, and the first of them was patched
C17_Witness ==
    \E h \in DOMAIN syncServers :
        /\ Len(QueriesFor(h)) = 3
        /\ QueriesFor(h)[3].Answer.Count = 2
        /\ Len(PatchesFor(h)) = 1
        /\ PatchesFor(h)[1].Param = Device2.ID

\* The PATCH requests sent so far
Patches == {n \in DOMAIN requests : requests[n].Method = "PATCH"}

\* C18 (as claimed): every PATCH body holds every configured custom field,
\* but for integer fields left out because their datum is absent; the
\* fields that are not integers are in every body, empty or not.
C18_AllFieldsInEveryPatch ==
    \A n \in Patches :
        (FieldNames \ IntegerFields) \subseteq DOMAIN requests[n].Value

\* ------------------------------------------------------ IP-range expansion
\* Texts are sequences of one-character strings, as in Key above.

MaxRangeIPs == 10000   \* ParseIPRange: len(ips) > 10000

DigitValue(c) == (CHOOSE i \in DOMAIN Digits : Digits[i] = c) - 1

\* strings.TrimSpace, for texts whose only white space is the blank
RECURSIVE TrimLeft(_)
TrimLeft(s) ==
    IF s # <<>> /\ s[1] = " " THEN TrimLeft(Tail(s)) ELSE s

RECURSIVE TrimRight(_)
TrimRight(s) ==
    IF s # <<>> /\ s[Len(s)] = " " THEN TrimRight(SubSeq(s, 1, Len(s) - 1)) ELSE s

TrimSpace(s) == TrimRight(TrimLeft(s))

\* strings.Contains with a one-character substring
Contains(s, c) == \E i \in DOMAIN s : s[i] = c

\* strings.Split with a one-character separator
RECURSIVE Split(_, _)
Split(s, c) ==
    IF ~Contains(s, c) THEN <<s>>
    ELSE LET i == FirstIndex([k \in DOMAIN s |-> s[k] = c])
         IN <<SubSeq(s, 1, i - 1)>> \o Split(SubSeq(s, i + 1, Len(s)), c)

\* The value of a decimal field
RECURSIVE Atoi(_)
Atoi(s) ==
    IF s = <<>> THEN 0 ELSE Atoi(SubSeq(s, 1, Len(s) - 1)) * 10 + DigitValue(s[Len(s)])

\* A decimal field of a dotted address: one to three digits, no leading
\* zero, at most 255
IsIPv4Field(f) ==
    /\ Len(f) \in 1..3
    /\ \A i \in DOMAIN f : (\E d \in DOMAIN Digits : Digits[d] = f[i])
    /\ Len(f) > 1 => f[1] # "0"
    /\ Atoi(f) <= 255

\* The four bytes of a dotted address a.b.c.d, or <<>> for any other text
ParseIPv4(s) ==
    LET fields == Split(s, ".")
    IN IF Len(fields) = 4 /\ \A i \in 1..4 : IsIPv4Field(fields[i])
       THEN [i \in 1..4 |-> Atoi(fields[i])]
       ELSE <<>>

MappedPrefix == <<":", ":", "f", "f", "f", "f", ":">>
Loopback6 == <<":", ":", "1">>

\* net.ParseIP followed by To4.  valid: ParseIP returned an address; v4: what
\* To4 gives, <<>> standing for nil.  The IPv6 spellings known here are the
\* IPv4-mapped form ::ffff:a.b.c.d and the loopback address ::1.
ParseIP(s) ==
    IF ParseIPv4(s) # <<>> THEN [valid |-> TRUE, v4 |-> ParseIPv4(s)]
    ELSE IF Len(s) > Len(MappedPrefix)
            /\ SubSeq(s, 1, Len(MappedPrefix)) = MappedPrefix
            /\ ParseIPv4(SubSeq(s, Len(MappedPrefix) + 1, Len(s))) # <<>>
    THEN [valid |-> TRUE,
          v4 |-> ParseIPv4(SubSeq(s, Len(MappedPrefix) + 1, Len(s)))]
    ELSE IF s = Loopback6 THEN [valid |-> TRUE, v4 |-> <<>>]
    ELSE [valid |-> FALSE, v4 |-> <<>>]

\* net.IP.String of a four-byte address
String(ip) == Join([i \in 1..4 |-> Itoa(ip[i])], <<".">>)

\* compareIPs: -1, 0 or 1, by the first byte that differs
compareIPs(a, b) ==
    LET i == FirstIndex([k \in 1..4 |-> a[k] # b[k]])
    IN IF i = 0 THEN 0 ELSE IF a[i] < b[i] THEN -1 ELSE 1

\* incrementIP's loop from byte i down: ip[i]++ on a uint8, and on to the
\* next byte while the result is 0
RECURSIVE IncrementFrom(_, _)
IncrementFrom(ip, i) ==
    IF i = 0 THEN ip
    ELSE LET b == (ip[i] + 1) % 256
         IN IF b > 0 THEN [ip EXCEPT ![i] = b]
            ELSE IncrementFrom([ip EXCEPT ![i] = b], i - 1)

incrementIP(ip) == IncrementFrom(ip, Len(ip))

\* The results of ParseIPRange and ExpandIPRanges: err = NoErr stands for nil
NoErr == "nil"
ErrRangeTooLarge == "IP range too large (max 10000 IPs)"

RangeResult(err, ips) == [status |-> "returned", err |-> err, ips |-> ips]

\* One round of ParseIPRange's generating loop, from the test of its
\* condition: leave the loop, or append ip.String(), return the error once
\* more than MaxRangeIPs addresses are held, and increment ip.
LoopStep(st) ==
    IF st.done THEN st
    ELSE IF compareIPs(st.ip, st.end) > 0 THEN [st EXCEPT !.done = TRUE]
    ELSE LET ips == Append(st.ips, String(st.ip))
         IN IF Len(ips) > MaxRangeIPs
            THEN [st EXCEPT !.done = TRUE, !.err = ErrRangeTooLarge, !.ips = <<>>]
            ELSE [st EXCEPT !.ips = ips, !.ip = incrementIP(st.ip)]

\* n rounds of the loop, evaluated by halves
RECURSIVE LoopSteps(_, _)
LoopSteps(st, n) ==
    IF st.done \/ n = 0 THEN st
    ELSE IF n = 1 THEN LoopStep(st)
    ELSE LoopSteps(LoopSteps(st, n \div 2), n - (n \div 2))

\* The generating loop: it returns within MaxRangeIPs + 1 rounds, either out
\* of the condition or out of the safety limit
GenerateIPs(start, end) ==
    LET st == LoopSteps([ip |-> start, end |-> end, ips |-> <<>>,
                         err |-> NoErr, done |-> FALSE], MaxRangeIPs + 1)
    IN RangeResult(st.err, st.ips)

ParseIPRange(rangeStr) ==
    LET str == TrimSpace(rangeStr)
        parts == Split(str, "-")
        startIP == TrimSpace(parts[1])
        endIP == TrimSpace(parts[2])
        start == ParseIP(startIP)
        end == ParseIP(endIP)
    IN IF ~Contains(str, "-")
       THEN IF ParseIP(str).valid THEN RangeResult(NoErr, <<str>>)
            ELSE RangeResult("invalid IP address", <<>>)
       ELSE IF Len(parts) # 2
       THEN RangeResult("invalid IP range format (expected 'start-end')", <<>>)
       ELSE IF ~start.valid THEN RangeResult("invalid start IP address", <<>>)
       ELSE IF start.v4 = <<>> THEN RangeResult("only IPv4 ranges are supported", <<>>)
       ELSE IF ~end.valid THEN RangeResult("invalid end IP address", <<>>)
       ELSE IF end.v4 = <<>> THEN RangeResult("only IPv4 ranges are supported", <<>>)
       ELSE IF compareIPs(start.v4, end.v4) > 0 THEN RangeResult("start IP must be <= end IP", <<>>)
       ELSE GenerateIPs(start.v4, end.v4)

\* ExpandIPRanges' inner loop: the addresses of one entry, those seen
\* before dropped
RECURSIVE AppendUnseen(_, _)
AppendUnseen(acc, ips) ==
    IF ips = <<>> THEN acc
    ELSE IF ips[1] \in acc.seen THEN AppendUnseen(acc, Tail(ips))
    ELSE AppendUnseen([allIPs |-> Append(acc.allIPs, ips[1]),
                       seen |-> acc.seen \cup {ips[1]}], Tail(ips))

RECURSIVE ExpandFrom(_, _)
ExpandFrom(acc, list) ==
    IF list = <<>> THEN RangeResult(NoErr, acc.allIPs)
    ELSE LET r == ParseIPRange(list[1])
         IN IF r.err # NoErr THEN RangeResult("failed to parse range", <<>>)
            ELSE ExpandFrom(AppendUnseen(acc, r.ips), Tail(list))

ExpandIPRanges(list) == ExpandFrom([allIPs |-> <<>>, seen |-> {}], list)

\* The addresses the range entries are made of: around the carry into the
\* third byte, 9999 and 10000 above 10.0.0.0, around the carry into the
\* first byte, and the top of the address space
RangeEnds ==
    {<<10, 0, 0, 0>>, <<10, 0, 0, 254>>, <<10, 0, 1, 1>>, <<10, 0, 39, 15>>,
     <<10, 0, 39, 16>>, <<10, 255, 255, 255>>, <<11, 0, 0, 0>>,
     <<255, 255, 255, 254>>, <<255, 255, 255, 255>>}

NotAnIP == <<"n", "o", "t">> \o <<"-">> \o <<"a", "n">> \o <<"-">> \o <<"i", "p">>

\* The entries ParseIPRange is called with: every start-end pair of
\* RangeEnds, some with blanks around the parts, single addresses in the
\* dotted, the IPv4-mapped and the IPv6 spelling, and malformed entries
RangeStrings ==
    {String(a) \o <<"-">> \o String(b) : a, b \in RangeEnds}
    \cup {<<" ">> \o String(a) \o <<" ", "-", " ">> \o String(<<10, 0, 1, 1>>) \o <<" ">> :
              a \in {<<10, 0, 0, 0>>, <<10, 0, 0, 254>>}}
    \cup {String(a) : a \in RangeEnds}
    \cup {MappedPrefix \o String(<<10, 0, 0, 254>>), Loopback6,
          Loopback6 \o <<"-">> \o String(<<10, 0, 0, 0>>),
          String(<<10, 0, 0, 0>>) \o <<"-">> \o Loopback6,
          String(<<10, 0, 0, 0>>) \o <<"-">> \o <<"x">>,
          <<"2", "5", "6">> \o <<".", "0", ".", "0", ".", "1">>,
          NotAnIP,
          String(<<10, 0, 0, 0>>) \o <<"-">> \o String(<<10, 0, 0, 254>>) \o <<"-">>
              \o String(<<10, 0, 1, 1>>)}

\* ParseIPRange is called with any entry of RangeStrings
ParseInit ==
    /\ ScanIdle
    /\ AggIdle
    /\ SummaryIdle
    /\ SyncIdle
    /\ \E rangeStr \in RangeStrings :
           fnCall = [fn |-> "ParseIPRange", arg |-> rangeStr, ret |-> NoExpansion]

Parse ==
    /\ fnCall.fn = "ParseIPRange"
    /\ fnCall.ret = NoExpansion
    /\ fnCall' = [fnCall EXCEPT !.ret = ParseIPRange(fnCall.arg)]
    /\ UNCHANGED <<scanVars, aggVars, summaryVars, syncVars>>

ParseNext == Parse

ParseSpec == ParseInit /\ [][ParseNext]_vars

\* An address as a number, in two halves of 16 bits each:
\* uint32(ip[0])<<24 | uint32(ip[1])<<16 and uint32(ip[2])<<8 | uint32(ip[3])
Hi(ip) == ip[1] * 256 + ip[2]
Lo(ip) == ip[3] * 256 + ip[4]

\* a <= b as numbers
AddrLeq(a, b) == Hi(a) < Hi(b) \/ (Hi(a) = Hi(b) /\ Lo(a) <= Lo(b))

\* endNum - startNum + 1 for start <= end; a range over more than two
\* values of the upper half counts as 65537, which it exceeds
RangeSize(start, end) ==
    IF Hi(end) - Hi(start) >= 2 THEN 65537
    ELSE (Hi(end) - Hi(start)) * 65536 + Lo(end) - Lo(start) + 1

\* The address d above ip, for d below 65536
AddrPlus(ip, d) ==
    LET lo == Lo(ip) + d
        hi == Hi(ip) + (lo \div 65536)
    IN <<(hi \div 256) % 256, hi % 256, (lo % 65536) \div 256, lo % 256>>

\* The start and end of an entry, as ParseIPRange takes them
RangeStart(rangeStr) == ParseIP(TrimSpace(Split(TrimSpace(rangeStr), "-")[1])).v4
RangeEnd(rangeStr) == ParseIP(TrimSpace(Split(TrimSpace(rangeStr), "-")[2])).v4

\* The entry is an IPv4 range start-end with start <= end
IsIPv4Range(rangeStr) ==
    /\ Len(Split(TrimSpace(rangeStr), "-")) = 2
    /\ RangeStart(rangeStr) # <<>>
    /\ RangeEnd(rangeStr) # <<>>
    /\ AddrLeq(RangeStart(rangeStr), RangeEnd(rangeStr))

\* C19: an IPv4 range start-end with start <= end expands to exactly its
\* end - start + 1 addresses, ascending from start to end, when that number
\* is at most 10 000, wherever in the address space it lies, and is rejected
\* with the range-too-large error when it is 10 001 or more.
C19_RangeExpandsOrTooLarge ==
    (fnCall.ret.status = "returned" /\ IsIPv4Range(fnCall.arg)) =>
        LET n == RangeSize(RangeStart(fnCall.arg), RangeEnd(fnCall.arg))
            ips == fnCall.ret.ips
        IN IF n <= MaxRangeIPs
           THEN /\ fnCall.ret.err = NoErr
                /\ Len(ips) = n
                /\ \A k \in 1..n :
                       ips[k] = String(AddrPlus(RangeStart(fnCall.arg), k - 1))
           ELSE fnCall.ret.err = ErrRangeTooLarge

\* ------------------------------------------------------------ ExpandIPRanges
MaxRanges == 2         \* longest entry list handed to ExpandIPRanges

\* The entries of the lists: overlapping ranges, a range over a carry with
\* blanks around its parts, a single address in the dotted and in the
\* IPv4-mapped spelling, a reversed range and a malformed entry
RangeEntries ==
    {String(<<10, 0, 0, 1>>) \o <<"-">> \o String(<<10, 0, 0, 3>>),
     String(<<10, 0, 0, 2>>) \o <<"-">> \o String(<<10, 0, 0, 5>>),
     String(<<10, 0, 0, 2>>),
     MappedPrefix \o String(<<10, 0, 0, 2>>),
     <<" ">> \o String(<<10, 0, 0, 254>>) \o <<" ", "-", " ">>
         \o String(<<10, 0, 1, 1>>) \o <<" ">>,
     String(<<10, 0, 1, 0>>) \o <<"-">> \o String(<<10, 0, 1, 1>>),
     String(<<10, 0, 0, 3>>) \o <<"-">> \o String(<<10, 0, 0, 1>>),
     NotAnIP}

\* ExpandIPRanges is called with any list of up to MaxRanges entries
ExpandInit ==
    /\ ScanIdle
    /\ AggIdle
    /\ SummaryIdle
    /\ SyncIdle
    /\ \E list \in SeqsUpTo(RangeEntries, MaxRanges) :
           fnCall = [fn |-> "ExpandIPRanges", arg |-> list, ret |-> NoExpansion]

Expand ==
    /\ fnCall.fn = "ExpandIPRanges"
    /\ fnCall.ret = NoExpansion
    /\ fnCall' = [fnCall EXCEPT !.ret = ExpandIPRanges(fnCall.arg)]
    /\ UNCHANGED <<scanVars, aggVars, summaryVars, syncVars>>

ExpandNext == Expand

ExpandSpec == ExpandInit /\ [][ExpandNext]_vars

\* The addresses of the entries, entry after entry, duplicates included
EntryIPs(list) == Concat([i \in DOMAIN list |-> ParseIPRange(list[i]).ips])

\* Where an address stands first in a list of address texts
FirstPlace(ips, text) == FirstIndex([k \in DOMAIN ips |-> ParseIP(ips[k]) = ParseIP(text)])

\* C20: expanding a list of range entries yields each address at most once,
\* at the position of its first occurrence: an address that several entries
\* cover is kept the first time and dropped every later time.
C20_EachAddressOnceFirstWins ==
    (fnCall.ret.status = "returned" /\ fnCall.ret.err = NoErr) =>
        LET out == fnCall.ret.ips
            all == EntryIPs(fnCall.arg)
        IN /\ \A i, j \in DOMAIN out : i # j => ParseIP(out[i]) # ParseIP(out[j])
           /\ \A k \in DOMAIN all : FirstPlace(out, all[k]) # 0
           /\ \A i, j \in DOMAIN out :
                  i < j => FirstPlace(all, out[i]) < FirstPlace(all, out[j])

\* ------------------------------------------------------------------- ParseCIDR
\* One more than byte i of ^ipNet.Mask for a prefix of n bits: the mask keeps
\* the upper min(8, max(0, n - 8(i-1))) bits of byte i
HostSpan(n, i) ==
    2 ^ (8 - (IF n >= 8 * i THEN 8 ELSE IF n <= 8 * (i - 1) THEN 0 ELSE n - 8 * (i - 1)))

\* ip.Mask(ipNet.Mask)
NetworkOf(ip, n) == [i \in 1..4 |-> ip[i] - (ip[i] % HostSpan(n, i))]

\* ParseCIDR's loop: while ipNet.Contains(ip), append ip unless the prefix
\* is shorter than 32 bits and ip is the network address or the broadcast
\* address (isBroadcast: ipNet.IP[i] | ^ipNet.Mask[i]); return the error once
\* more than MaxRangeIPs addresses are held; incrementIP
RECURSIVE CIDRLoop(_, _, _, _)
CIDRLoop(ip, ipNet, n, ips) ==
    LET broadcast == [i \in 1..4 |-> ipNet[i] + HostSpan(n, i) - 1]
        next == IF n < 32 /\ (ip = ipNet \/ ip = broadcast) THEN ips
                ELSE Append(ips, String(ip))
    IN IF NetworkOf(ip, n) # ipNet THEN RangeResult(NoErr, ips)
       ELSE IF Len(next) > MaxRangeIPs
       THEN RangeResult("CIDR range too large (max 10000 IPs)", <<>>)
       ELSE CIDRLoop(incrementIP(ip), ipNet, n, next)

\* ParseCIDR of a text a.b.c.d/n; net.ParseCIDR takes a dotted address, a
\* slash and a prefix length of one or two digits, at most 32
ParseCIDR(cidr) ==
    LET parts == Split(cidr, "/")
        ip == ParseIPv4(parts[1])
        n == Atoi(parts[2])
    IN IF /\ Len(parts) = 2
          /\ ip # <<>>
          /\ Len(parts[2]) \in 1..2
          /\ \A k \in DOMAIN parts[2] : \E d \in DOMAIN Digits : Digits[d] = parts[2][k]
          /\ n <= 32
       THEN CIDRLoop(NetworkOf(ip, n), NetworkOf(ip, n), n, <<>>)
       ELSE RangeResult("invalid CIDR", <<>>)

\* --------------------------------------------------------- expandServerGroups
MaxGroups == 2         \* longest server_groups list of a configuration

\* The loop of expandServerGroups over c.ServerGroups: a group without
\* ip_ranges or with an entry ExpandIPRanges rejects ends the load with an
\* error; otherwise one ServerConfig per address, its Host the address
RECURSIVE ExpandGroupsFrom(_, _, _)
ExpandGroupsFrom(explicit, groups, expandedServers) ==
    IF groups = <<>> THEN RangeResult(NoErr, explicit \o expandedServers)
    ELSE IF Len(groups[1].IPRanges) = 0
    THEN RangeResult("no ip_ranges specified", <<>>)
    ELSE LET r == ExpandIPRanges(groups[1].IPRanges)
         IN IF r.err # NoErr THEN RangeResult("server_group", <<>>)
            ELSE ExpandGroupsFrom(explicit, Tail(groups), expandedServers \o r.ips)

\* Config.expandServerGroups: c.Servers afterwards (the Host of each), or
\* the error
expandServerGroups(c) ==
    IF Len(c.ServerGroups) = 0 THEN RangeResult(NoErr, c.Servers)
    ELSE ExpandGroupsFrom(c.Servers, c.ServerGroups, <<>>)

\* The CIDR entries of the groups: a block of four addresses and a single
\* address
CIDREntries ==
    {String(<<10, 0, 1, 0>>) \o <<"/">> \o Itoa(30),
     String(<<10, 0, 0, 2>>) \o <<"/">> \o Itoa(32)}

\* The server groups of the configurations: no entry, a range, a single
\* address that the range covers, a CIDR entry alone and after a range
ServerGroupSet ==
    {[IPRanges |-> list] :
        list \in {<<>>,
                  <<String(<<10, 0, 0, 1>>) \o <<"-">> \o String(<<10, 0, 0, 3>>)>>,
                  <<String(<<10, 0, 0, 2>>)>>}
                 \cup {<<e>> : e \in CIDREntries}
                 \cup {<<String(<<10, 0, 0, 254>>) \o <<"-">> \o String(<<10, 0, 1, 1>>), e>> :
                           e \in CIDREntries}}

\* Parse is called on a configuration with no or one explicit server and up
\* to MaxGroups server groups
GroupInit ==
    /\ ScanIdle
    /\ AggIdle
    /\ SummaryIdle
    /\ SyncIdle
    /\ \E explicit \in {<<>>, <<String(<<10, 0, 0, 2>>)>>},
          groups \in SeqsUpTo(ServerGroupSet, MaxGroups) :
           fnCall = [fn |-> "expandServerGroups",
                     arg |-> [Servers |-> explicit, ServerGroups |-> groups],
                     ret |-> NoExpansion]

ExpandGroups ==
    /\ fnCall.fn = "expandServerGroups"
    /\ fnCall.ret = NoExpansion
    /\ fnCall' = [fnCall EXCEPT !.ret = expandServerGroups(fnCall.arg)]
    /\ UNCHANGED <<scanVars, aggVars, summaryVars, syncVars>>

GroupNext == ExpandGroups

GroupSpec == GroupInit /\ [][GroupNext]_vars

\* The entries of all groups of a configuration
GroupEntries(c) == Concat([i \in DOMAIN c.ServerGroups |-> c.ServerGroups[i].IPRanges])

\* C21: a host-group ip_ranges entry in CIDR form a.b.c.d/n is accepted by
\* the configuration load and expands to the addresses of its block, without
\* the network and the broadcast address when the prefix is shorter than 32
\* bits: with every group holding entries and every other entry well formed,
\* the load succeeds and the servers include every address of every block.
C21_CIDREntryExpands ==
    LET c == fnCall.arg
        entries == GroupEntries(c)
    IN (/\ fnCall.ret.status = "returned"
        /\ \E k \in DOMAIN entries : entries[k] \in CIDREntries
        /\ \A i \in DOMAIN c.ServerGroups : c.ServerGroups[i].IPRanges # <<>>
        /\ \A k \in DOMAIN entries :
               entries[k] \notin CIDREntries => ParseIPRange(entries[k]).err = NoErr)
       => /\ fnCall.ret.err = NoErr
          /\ \A k \in DOMAIN entries :
                 entries[k] \in CIDREntries =>
                     \A a \in DOMAIN ParseCIDR(entries[k]).ips :
                         \E h \in DOMAIN fnCall.ret.ips :
                             fnCall.ret.ips[h] = ParseCIDR(entries[k]).ips[a]

\* ------------------------------------------------------------ redfishClient.get
\* What httpClient.Do and the read of the body give: a transport error, or a
\* response with its status code and body.  Body: "json" decodes into the
\* target, "text" does not, "empty" is no byte at all.
StatusCodes == {200, 201, 204, 300, 304, 400, 401, 403, 404, 405, 500, 503}

HTTPOutcomes ==
    {[transport |-> FALSE, StatusCode |-> code, Body |-> body] :
         code \in StatusCodes, body \in {"json", "text", "empty"}}
    \cup {[transport |-> TRUE, StatusCode |-> 0, Body |-> "empty"]}

\* The error values get returns
GetError(kind, statusCode, message, host, path) ==
    [kind |-> kind, StatusCode |-> statusCode, Message |-> message,
     Host |-> host, Path |-> path]

GetNil == GetError("nil", 0, "", "", "")

\* redfishClient.get(ctx, path, target) on the outcome of the request:
\* decoded tells whether json.Unmarshal was called
get(baseURL, path, hasTarget, outcome) ==
    IF outcome.transport
    THEN [err |-> GetError("RedfishError", 0, "transport error", baseURL, path),
          decoded |-> FALSE]
    ELSE IF outcome.StatusCode >= 400
    THEN [err |-> IF outcome.StatusCode = 401 \/ outcome.StatusCode = 403
                  THEN GetError("ErrAuthenticationFailed", 0, "", "", "")
                  ELSE IF outcome.StatusCode = 404
                  THEN GetError("ErrNotFound", 0, "", "", "")
                  ELSE GetError("RedfishError", outcome.StatusCode, outcome.Body,
                                baseURL, path),
          decoded |-> FALSE]
    ELSE IF hasTarget
    THEN [err |-> IF outcome.Body = "json" THEN GetNil
                  ELSE GetError("failed to unmarshal response", 0, "", "", ""),
          decoded |-> TRUE]
    ELSE [err |-> GetNil, decoded |-> FALSE]

\* get is called for one of two paths, with or without a target, and the
\* BMC answers with any outcome
GetInit ==
    /\ ScanIdle
    /\ AggIdle
    /\ SummaryIdle
    /\ SyncIdle
    /\ \E path \in {"/redfish/v1/", "/redfish/v1/Systems/System.Embedded.1"},
          hasTarget \in BOOLEAN, outcome \in HTTPOutcomes :
           fnCall = [fn |-> "get",
                     arg |-> [baseURL |-> "https://bmc", path |-> path,
                              hasTarget |-> hasTarget, outcome |-> outcome],
                     ret |-> NoExpansion]

Get ==
    /\ fnCall.fn = "get"
    /\ fnCall.ret = NoExpansion
    /\ fnCall' = [fnCall EXCEPT !.ret =
                      [status |-> "returned"] @@
                      get(fnCall.arg.baseURL, fnCall.arg.path, fnCall.arg.hasTarget,
                          fnCall.arg.outcome)]
    /\ UNCHANGED <<scanVars, aggVars, summaryVars, syncVars>>

GetNext == Get

GetSpec == GetInit /\ [][GetNext]_vars

\* C22: a Redfish GET is classified by its outcome: only a 2xx status leads
\* to decoding the body and reporting success; 401 and 403 give
\* AuthFailed; 404 gives NotFound; every other 4xx/5xx gives a RedfishError
\* with the status, body, host and path; a transport failure gives a
\* RedfishError with status 0.
C22_GetClassifiedByStatus ==
    fnCall.ret.status = "returned" =>
        LET o == fnCall.arg.outcome
            r == fnCall.ret
        IN /\ (r.decoded \/ r.err = GetNil) =>
                  (~o.transport /\ o.StatusCode \in 200..299)
           /\ o.transport =>
                  r.err = GetError("RedfishError", 0, r.err.Message,
                                   fnCall.arg.baseURL, fnCall.arg.path)
           /\ (~o.transport /\ o.StatusCode \in {401, 403}) =>
                  r.err.kind = "ErrAuthenticationFailed"
           /\ (~o.transport /\ o.StatusCode = 404) => r.err.kind = "ErrNotFound"
           /\ (~o.transport /\ o.StatusCode \in (400..599) \ {401, 403, 404}) =>
                  r.err = GetError("RedfishError", o.StatusCode, o.Body,
                                   fnCall.arg.baseURL, fnCall.arg.path)

\* ------------------------------------------------- the deadline of a host scan
\* Time is counted in seconds from the call of scanServer.  An optional
\* value (a *int, a context's deadline) is <<>> when absent and <<v>> when
\* present.
DefaultTimeoutSeconds == 60    \* pkg/defaults: DefaultTimeoutSeconds
MaxCallSeconds == 3    \* longest time a BMC takes to answer one step

secondsToDuration(seconds, defaultDuration) ==
    IF seconds <= 0 THEN defaultDuration ELSE seconds

secondsPtrToDuration(seconds, defaultDuration) ==
    IF seconds = <<>> \/ seconds[1] <= 0 THEN defaultDuration ELSE seconds[1]

\* DefaultsConfig.Timeout of cfg.Defaults.TimeoutSeconds
DefaultsTimeout(timeoutSeconds) == secondsToDuration(timeoutSeconds, DefaultTimeoutSeconds)

\* context.WithTimeout(ctx, timeout) at time now: the earlier of the
\* parent's deadline and now + timeout
WithTimeoutIgnoresParent(ctxDeadline, now, timeout) == now + timeout

WithTimeout(ctxDeadline, now, timeout) ==
    IF ctxDeadline # <<>> /\ ctxDeadline[1] < now + timeout THEN ctxDeadline[1]
    ELSE now + timeout

\* scanServer is called with any caller's deadline, host timeout_seconds and
\* defaults timeout_seconds; scanCtx and the client's per-request timeout are
\* those of scanServer and New
TimedInit ==
    /\ ScanIdle
    /\ AggIdle
    /\ SummaryIdle
    /\ SyncIdle
    /\ \E ctxDeadline \in {<<>>, <<2>>, <<7>>},
          hostSeconds \in {<<>>, <<0>>, <<3>>, <<6>>},
          defaultSeconds \in {0, 4} :
           fnCall = [fn |-> "scanServer",
                     arg |-> [ctxDeadline |-> ctxDeadline, TimeoutSeconds |-> hostSeconds,
                              DefaultsTimeoutSeconds |-> defaultSeconds],
                     scanCtx |-> WithTimeout(ctxDeadline, 0,
                                     secondsPtrToDuration(hostSeconds,
                                                          DefaultsTimeout(defaultSeconds))),
                     clientTimeout |-> DefaultsTimeout(defaultSeconds),
                     now |-> 0,
                     step |-> 1,
                     ret |-> NoExpansion]

\* One collect step of scanServer, its requests taken together: the BMC
\* would answer after d seconds; the request ends with an error when
\* scanCtx's deadline or the client's timeout comes first.  A failed system
\* step returns the record with the error, the last step returns it.
TimedStep ==
    /\ fnCall.fn = "scanServer"
    /\ fnCall.ret = NoExpansion
    /\ \E d \in 1..MaxCallSeconds :
           LET left == IF fnCall.scanCtx > fnCall.now THEN fnCall.scanCtx - fnCall.now ELSE 0
               limit == IF fnCall.clientTimeout < left THEN fnCall.clientTimeout ELSE left
               failed == d > limit
               now == fnCall.now + (IF failed THEN limit ELSE d)
           IN fnCall' =
                  [fnCall EXCEPT
                      !.now = now,
                      !.step = @ + 1,
                      !.ret = IF (failed /\ Steps[fnCall.step] = "system")
                                 \/ fnCall.step = Len(Steps)
                              THEN [status |-> "returned",
                                    failedSystem |-> failed /\ fnCall.step = 1]
                              ELSE NoExpansion]
    /\ UNCHANGED <<scanVars, aggVars, summaryVars, syncVars>>

TimedNext == TimedStep

TimedSpec == TimedInit /\ [][TimedNext]_vars

\* The least of a non-empty set of numbers
Least(S) == CHOOSE x \in S : \A y \in S : x <= y

\* C23 as stated: the deadline that bounds the total duration of one host's
\* scan is the minimum of the caller's context deadline, the host-specific
\* timeout and the default timeout.
C23_DeadlineIsMinOfAll ==
    fnCall.now <= Least({DefaultsTimeout(fnCall.arg.DefaultsTimeoutSeconds)}
                        \cup {fnCall.arg.ctxDeadline[i] : i \in DOMAIN fnCall.arg.ctxDeadline}
                        \cup {fnCall.arg.TimeoutSeconds[i] :
                                  i \in {j \in DOMAIN fnCall.arg.TimeoutSeconds :
                                             fnCall.arg.TimeoutSeconds[j] > 0}})

\* C23 amended: the total duration of one host's scan is bounded by the
\* caller's context deadline and by one timeout: the host-specific timeout
\* when it is set and positive, the default timeout otherwise.
C23_DeadlineIsHostElseDefault ==
    LET host == fnCall.arg.TimeoutSeconds
        timeout == IF host # <<>> /\ host[1] > 0 THEN host[1]
                   ELSE DefaultsTimeout(fnCall.arg.DefaultsTimeoutSeconds)
    IN fnCall.now <= Least({timeout} \cup {fnCall.arg.ctxDeadline[i] :
                                              i \in DOMAIN fnCall.arg.ctxDeadline})

\* C23 witness: a scan with a host timeout above the default that lasted
\* longer than the default timeout and ended at the host timeout
C23_Witness ==
    /\ fnCall.ret.status = "returned"
    /\ fnCall.arg.TimeoutSeconds = <<6>>
    /\ fnCall.arg.DefaultsTimeoutSeconds = 4
    /\ fnCall.arg.ctxDeadline = <<7>>
    /\ fnCall.now = 6

\* ------------------------------------------------ the engine, further claims
\* The records sent by the workers: those ScanAll has collected and those
\* still in the results channel
Sent == Collected \cup Range(results)

\* C24: after cancellation no new host scan is started: every host whose
\* scan had not begun when the context was cancelled gets a record with the
\* cancellation error and nothing else, no worker is ever inside scanServer
\* for it, and ScanAll returns its record, under every interleaving of the
\* cancellation with the workers' reads of the jobs channel.
C24_NoScanStartsAfterCancel ==
    /\ \A w \in Scanning : cancelledAt[wjob[w]] # "not begun"
    /\ \A r \in Sent : cancelledAt[r.Host] = "not begun" => r = CancelledInfo(r.Host)
    /\ Returned => \A i \in ServerIds :
                       cancelledAt[i] = "not begun" => \E r \in Collected : r.Host = servers[i]

\* C24 witness: ScanAll has returned from a run cancelled while one host's
\* scan was at one of its steps and another host's had not begun
C24_Witness ==
    /\ Returned
    /\ \E i, j \in ServerIds :
         /\ cancelledAt[i] = "not begun"
         /\ cancelledAt[j] \in StepSet
         /\ \E r \in Collected : r.Host = servers[i] /\ r.Error = CtxErr

\* C25: within one host scan the steps run in the order system, processors,
\* memory, storage, power, each entered from the one before it and the
\* first from the worker's select; a failed system fetch returns at once,
\* and the scan returns otherwise only after the power step.
C25_StepsInOrder ==
    [][\A w \in Workers :
         /\ (wpc'[w] \in StepSet /\ wpc'[w] # wpc[w]) =>
                IF wpc'[w] = "system" THEN wpc[w] = "select"
                ELSE /\ wpc[w] = Steps[StepIndex(wpc'[w]) - 1]
                     /\ winfo'[w].Error = Nil
         /\ (wpc[w] = "system" /\ wpc'[w] # "system" /\ winfo'[w].Error # Nil) =>
                wpc'[w] = "result"
         /\ (wpc[w] \in StepSet /\ wpc'[w] = "result") =>
                \/ wpc[w] = "power"
                \/ wpc[w] = "system" /\ winfo'[w].Error # Nil]_vars

\* C25 witness: a scan whose system fetch failed is about to send its
\* record, which holds nothing of the later steps although the BMC would
\* have answered them
C25_Witness ==
    \E w \in Workers :
        /\ wpc[w] = "result"
        /\ ~ctxDone
        /\ bmc[wjob[w]].fails = {"system"}
        /\ winfo[w] = [NewInfo(servers[wjob[w]]) EXCEPT !.Error = CollectionErrorSystem]

\* The record of server i when nothing is cancelled: scanServer's steps over
\* what the server's BMC answers
RecordOf(i) == ScanFrom(NewInfo(servers[i]), bmc[i], 1, Len(Steps) + 1)

\* C26: when the context is never cancelled, the set of records ScanAll
\* returns is determined by the host list and the BMCs' answers alone: it
\* is the same under every interleaving of the workers and for every
\* concurrency, and each record depends on its own host's answers only.
C26_RecordsDeterminedByHosts ==
    (Returned /\ ~ctxDone) => Collected = {RecordOf(i) : i \in ServerIds}

\* C26 witness: an uncancelled run of two workers over two hosts has
\* returned a failed record beside a successful one
C26_Witness ==
    /\ Returned
    /\ ~ctxDone
    /\ concurrency >= 2
    /\ Len(servers) >= 2
    /\ \E r, q \in Collected : r.Error = CollectionErrorSystem /\ q.Error = Nil

\* C30: the results channel is closed only after every worker has exited,
\* so no worker is ever at a send on the closed channel, and every record
\* the workers sent has been received by ScanAll when it computes the
\* statistics and returns.
C30_ResultsClosedAfterWorkers ==
    /\ resultsClosed =>
          /\ \A w \in Workers : wpc[w] = "done"
          /\ Len(results) + Len(serverInfos) = Len(servers)
    /\ Returned =>
          /\ resultsClosed
          /\ results = <<>>
          /\ stats.TotalServers = Len(serverInfos)

\* C30 witness: the channel has been closed after two workers exited, while
\* ScanAll still has records to receive from it
C30_Witness ==
    /\ resultsClosed
    /\ mainPc = "collect"
    /\ Cardinality(Workers) >= 2
    /\ Len(results) >= 2

\* ------------------------------------------------- the sync, further claims
\* The positions in `requests` of the requests of kind `method` sent for
\* the record of host h
Sends(h, method) ==
    {n \in DOMAIN requests : requests[n].Host = h /\ requests[n].Method = method}

\* C27: SyncServerInfo sends a PATCH only after a lookup has returned a
\* device, one PATCH at most, after all its lookups and addressed to that
\* device's id; when every probe answered count zero, or both identifiers
\* are empty, or a lookup request failed, it returns an error and sends no
\* PATCH; and a failed lookup request is the record's last lookup.
C27_PatchOnlyAfterDevice ==
    \A h \in DOMAIN syncServers :
        LET q == QueriesFor(h)
            probes == Probes(syncServers[h])
            lookupFailed == \E n \in DOMAIN q : q[n].Answer.failed
            allZero == /\ Len(q) = Len(probes)
                       /\ \A n \in DOMAIN q : ~q[n].Answer.failed /\ q[n].Answer.Count = 0
        IN /\ Cardinality(Sends(h, "PATCH")) <= 1
           /\ \A n \in Sends(h, "PATCH") :
                 /\ \A g \in Sends(h, "GET") : g < n
                 /\ \E g \in Sends(h, "GET") :
                       /\ ~requests[g].Answer.failed
                       /\ requests[g].Answer.Results # <<>>
                       /\ requests[n].Param = requests[g].Answer.Results[1].ID
           /\ (syncServers[h].Error = Nil /\ (lookupFailed \/ allZero)) =>
                 /\ Sends(h, "PATCH") = {}
                 /\ h \in DOMAIN syncResults =>
                        ~syncResults[h].Success /\ syncResults[h].Error # NoError
           /\ (syncServers[h].Error = Nil /\ allZero /\ syncIdx > h) =>
                 h \in DOMAIN syncResults
           /\ lookupFailed =>
                 /\ h \in DOMAIN syncResults
                 /\ \A n \in DOMAIN q : q[n].Answer.failed => n = Len(q)

\* C27 witness: the first lookup of a record answered zero and the second
\* failed; the record's sync ended with the request's error after two
\* lookups and no PATCH, and SyncAll has returned
C27_Witness ==
    /\ syncPc = "returned"
    /\ \E h \in DOMAIN syncServers :
         /\ Len(QueriesFor(h)) = 2
         /\ QueriesFor(h)[2].Answer.failed
         /\ Sends(h, "PATCH") = {}
         /\ syncResults[h].Error = ErrRequest
    /\ \E h \in DOMAIN syncServers :
         /\ syncServers[h].ServiceTag = <<>>
         /\ syncServers[h].SerialNumber = <<>>
         /\ syncServers[h].Error = Nil
         /\ syncResults[h].Error = ErrNotFound(syncServers[h])

\* ------------------------------------------- the aggregator, further claims
\* C28 (as claimed): GroupByConfiguration completes normally for every
\* input, manufacturer and model strings holding the key's separator
\* included, and every successful record is in a config group of the model
\* group with exactly its manufacturer and model, and in no other.
C28_PlacedInOwnModelGroup ==
    /\ aggInv.status # "panic"
    /\ aggInv.status = "returned" =>
          \A h \in SuccessfulHosts :
              /\ PlacesOf(h) # {}
              /\ \A pl \in PlacesOf(h) :
                    /\ aggInv.ModelGroups[pl[1]].Manufacturer = aggServers[h].Manufacturer
                    /\ aggInv.ModelGroups[pl[1]].Model = aggServers[h].Model

\* ------------------------------------------------------ ValidateConnections
\* ValidateConnections runs on the scanner's state: cfg.Servers, the
\* concurrency, a jobs channel and its workers.  Here `servers` holds each
\* configured server's Host (a server group's range and an explicit entry
\* may name one address twice), bmc[i] is what validateConnection returns
\* for server i with that entry's credentials, `results` is the map from
\* Host to error, and a worker at "locked" holds the mutex mu.
ErrAuthenticationFailed == "ErrAuthenticationFailed"

ValidateInit ==
    /\ cfgConcurrency \in 1..MaxWorkers
    /\ concurrency = NewConcurrency(cfgConcurrency)
    /\ \E n \in 0..MaxHosts :
         /\ servers \in [1..n -> 1..MaxHosts]
         /\ bmc \in [1..n -> {Nil, ErrAuthenticationFailed}]
         /\ cancelledAt = [i \in 1..n |-> "not cancelled"]
    /\ ctxDone = FALSE
    /\ jobs = <<>>
    /\ jobsClosed = FALSE
    /\ results = <<>>
    /\ resultsClosed = FALSE
    /\ mainPc = "validate"
    /\ mainIdx = 1
    /\ wpc = <<>>
    /\ wjob = <<>>
    /\ winfo = <<>>
    /\ closerPc = "unborn"
    /\ serverInfos = <<>>
    /\ stats = NoStats
    /\ AggIdle
    /\ OtherIdle

\* What the validation leaves alone
validateFixed == <<aggVars, otherVars, cfgConcurrency, concurrency, servers, bmc, ctxDone,
                   cancelledAt, resultsClosed, closerPc, serverInfos, stats>>

\* for i := 0; i < s.concurrency; i++ { wg.Add(1); go func() {...}() }
StartValidators ==
    /\ mainPc = "validate"
    /\ wpc' = [w \in 1..concurrency |-> "range"]
    /\ wjob' = [w \in 1..concurrency |-> 0]
    /\ winfo' = [w \in 1..concurrency |-> Nil]
    /\ mainPc' = "send"
    /\ UNCHANGED <<validateFixed, jobs, jobsClosed, results, mainIdx>>

\* close(jobs), then wg.Wait()
ValidateCloseJobs ==
    /\ mainPc = "send"
    /\ mainIdx > Len(servers)
    /\ jobsClosed' = TRUE
    /\ mainPc' = "wait"
    /\ UNCHANGED <<validateFixed, jobs, results, mainIdx, wpc, wjob, winfo>>

\* wg.Wait() returns once every worker has run its deferred wg.Done();
\* return results
ValidateReturn ==
    /\ mainPc = "wait"
    /\ \A w \in Workers : wpc[w] = "done"
    /\ mainPc' = "returned"
    /\ UNCHANGED <<validateFixed, jobs, jobsClosed, results, mainIdx, wpc, wjob, winfo>>

\* for server := range jobs, then err := s.validateConnection(ctx, server)
ValidateJob(w) ==
    /\ wpc[w] = "range"
    /\ jobs # <<>>
    /\ wjob' = [wjob EXCEPT ![w] = Head(jobs)]
    /\ winfo' = [winfo EXCEPT ![w] = bmc[Head(jobs)]]
    /\ jobs' = Tail(jobs)
    /\ wpc' = [wpc EXCEPT ![w] = "lock"]
    /\ UNCHANGED <<validateFixed, jobsClosed, results, mainPc, mainIdx>>

\* mu.Lock(): granted when no worker holds the mutex
Lock(w) ==
    /\ wpc[w] = "lock"
    /\ \A v \in Workers : wpc[v] # "locked"
    /\ wpc' = [wpc EXCEPT ![w] = "locked"]
    /\ UNCHANGED <<validateFixed, jobs, jobsClosed, results, mainPc, mainIdx, wjob, winfo>>

\* results[server.Host] = err; mu.Unlock()
StoreResult(w) ==
    /\ wpc[w] = "locked"
    /\ results' = (servers[wjob[w]] :> winfo[w]) @@ results
    /\ wjob' = [wjob EXCEPT ![w] = 0]
    /\ wpc' = [wpc EXCEPT ![w] = "range"]
    /\ UNCHANGED <<validateFixed, jobs, jobsClosed, mainPc, mainIdx, winfo>>

ValidateNext ==
    \/ StartValidators
    \/ SendJob
    \/ ValidateCloseJobs
    \/ ValidateReturn
    \/ \E w \in Workers : ValidateJob(w)
    \/ \E w \in Workers : Lock(w)
    \/ \E w \in Workers : StoreResult(w)
    \/ \E w \in Workers : WorkerExit(w)

ValidateSpec == ValidateInit /\ [][ValidateNext]_vars

\* C29 (as claimed): ValidateConnections returns exactly one entry per
\* configured server, each holding that server's own outcome, for every
\* server list, lists naming one address twice included; and no two workers
\* are ever at the write of the result map together.
C29_OneEntryPerServer ==
    /\ Cardinality({w \in Workers : wpc[w] = "locked"}) <= 1
    /\ mainPc = "returned" =>
          /\ Cardinality(DOMAIN results) = Len(servers)
          /\ \A i \in ServerIds : results[servers[i]] = bmc[i]

====
